---- MODULE Spec2Model ----
(***************************************************************************)
(* Conversation orchestration and tool-permission arbitration of the       *)
(* whatsapp-claude-agent: ConversationManager (conversation/manager.ts),   *)
(* PermissionManager (claude/permissions.ts) and SDKBackend                *)
(* (claude/sdk-backend.ts, claude/backend.ts).                             *)
(*                                                                         *)
(* JavaScript runs one task at a time: every handler below runs to its     *)
(* first suspension point as one step.  A promise continuation is a        *)
(* microtask, so the code after `await this.onPermissionRequest(...)` runs *)
(* in the same step as the call that settles the promise.                  *)
(***************************************************************************)
EXTENDS Integers, Sequences, FiniteSets, TLC

(* ------------------------------ bounds --------------------------------- *)
\* number of permission requests ever created in one run
MaxRequests == 2
\* number of backend queries that can be in flight together
MaxQueries == 1
\* number of turns the history holds
MaxTurns == 2

(* ------------------------- text: trim, case ---------------------------- *)
\* Text is a sequence of one-character strings.
Whitespace == {" ", "\t", "\n"}

\* String.prototype.toUpperCase on one character ("ß" becomes "SS").
UpperOfChar(c) ==
    CASE c = "a" -> <<"A">> [] c = "b" -> <<"B">> [] c = "c" -> <<"C">>
      [] c = "d" -> <<"D">> [] c = "e" -> <<"E">> [] c = "f" -> <<"F">>
      [] c = "g" -> <<"G">> [] c = "h" -> <<"H">> [] c = "i" -> <<"I">>
      [] c = "j" -> <<"J">> [] c = "k" -> <<"K">> [] c = "l" -> <<"L">>
      [] c = "m" -> <<"M">> [] c = "n" -> <<"N">> [] c = "o" -> <<"O">>
      [] c = "p" -> <<"P">> [] c = "q" -> <<"Q">> [] c = "r" -> <<"R">>
      [] c = "s" -> <<"S">> [] c = "t" -> <<"T">> [] c = "u" -> <<"U">>
      [] c = "v" -> <<"V">> [] c = "w" -> <<"W">> [] c = "x" -> <<"X">>
      [] c = "y" -> <<"Y">> [] c = "z" -> <<"Z">>
      [] c = "ß" -> <<"S", "S">>
      [] OTHER -> <<c>>

\* String.prototype.toLowerCase on one character.
LowerOfChar(c) ==
    CASE c = "A" -> "a" [] c = "B" -> "b" [] c = "C" -> "c"
      [] c = "D" -> "d" [] c = "E" -> "e" [] c = "F" -> "f"
      [] c = "G" -> "g" [] c = "H" -> "h" [] c = "I" -> "i"
      [] c = "J" -> "j" [] c = "K" -> "k" [] c = "L" -> "l"
      [] c = "M" -> "m" [] c = "N" -> "n" [] c = "O" -> "o"
      [] c = "P" -> "p" [] c = "Q" -> "q" [] c = "R" -> "r"
      [] c = "S" -> "s" [] c = "T" -> "t" [] c = "U" -> "u"
      [] c = "V" -> "v" [] c = "W" -> "w" [] c = "X" -> "x"
      [] c = "Y" -> "y" [] c = "Z" -> "z"
      [] OTHER -> c

RECURSIVE toUpperCase(_)
toUpperCase(s) ==
    IF s = <<>> THEN <<>> ELSE UpperOfChar(Head(s)) \o toUpperCase(Tail(s))

toLowerCase(s) == [i \in 1..Len(s) |-> LowerOfChar(s[i])]

RECURSIVE trimStart(_)
trimStart(s) ==
    IF s # <<>> /\ Head(s) \in Whitespace THEN trimStart(Tail(s)) ELSE s

RECURSIVE trimEnd(_)
trimEnd(s) ==
    IF s # <<>> /\ s[Len(s)] \in Whitespace
    THEN trimEnd(SubSeq(s, 1, Len(s) - 1)) ELSE s

trim(s) == trimEnd(trimStart(s))

(* ------------------------- inbound message texts ----------------------- *)
ReplyTexts ==
    { <<"y">>, <<" ", "Y", "e", "s", "\n">>, <<"a", "l", "l", "o", "w">>,
      <<"N">>, <<"\t", "n", "o", " ">>, <<"D", "e", "n", "y">> }

OtherTexts ==
    { <<"m", "a", "y", "b", "e">>, <<"y", "e", "s", "s">>, <<"y", " ", "e", "s">>,
      <<"y", "e", "ß">>, <<>> }

CommandTexts ==
    { <<"/", "p", "l", "a", "n">>, <<" ", "/", "B", "y", "p", "a", "s", "s">>,
      <<"/", "d", "e", "f", "a", "u", "l", "t">>,
      <<"/", "a", "c", "c", "e", "p", "t", "E", "d", "i", "t", "s">>,
      <<"/", "m", "o", "d", "e">>, <<"/", "n", "o">> }

Texts == ReplyTexts \cup OtherTexts \cup CommandTexts

(* ------------------------------ mode policy ---------------------------- *)
Modes == {"default", "acceptEdits", "bypassPermissions", "plan", "dontAsk"}

Tools == {"Write", "Edit", "NotebookEdit", "Bash", "TodoWrite", "Read"}

isDestructiveTool(toolName) ==
    toolName \in {"Write", "Edit", "Bash", "NotebookEdit", "TodoWrite"}

\* the tools acceptEdits auto-allows
isEditTool(toolName) == toolName \in {"Edit", "Write", "NotebookEdit"}

\* first branch of handleToolPermission that applies
PermissionBranch(m, toolName, hasCallback) ==
    IF m = "bypassPermissions" THEN "allow"
    ELSE IF m = "plan" /\ isDestructiveTool(toolName) THEN "deny"
    ELSE IF m = "acceptEdits" /\ isEditTool(toolName) THEN "allow"
    ELSE IF m = "dontAsk" /\ isDestructiveTool(toolName) THEN "deny"
    ELSE IF m = "default" /\ isDestructiveTool(toolName)
         THEN IF hasCallback THEN "ask" ELSE "deny"
    ELSE "allow"

\* variant: the awaited boolean is not looked at
BehaviorOfAnswerIgnored(allowed) == "allow"

\* lines 322-325: the PermissionResult built from the awaited boolean
BehaviorOfAnswer(allowed) == IF allowed THEN "allow" ELSE "deny"

(* -------------------------------- state -------------------------------- *)
VARIABLES
    mode,               \* ClaudeBackend.mode
    configMode,         \* ConversationManager.config.mode
    permissionCallback, \* ClaudeBackend.onPermissionRequest is set
    queries,            \* backend queries in flight
    resuming,           \* the queries made with the resume option (168-176)
    initialized,        \* the queries whose init message has arrived
    requests,           \* every PermissionRequest created, by id
    pendingRequests,    \* PermissionManager.pendingRequests, in insertion order
    emitted,            \* 'permission-request' events emitted so far
    modeSwitched,       \* a mode command has been handled
    currentSessionId,   \* SDKBackend.currentSessionId (None: undefined)
    forkNextQuery,      \* SDKBackend.forkNextQuery
    history,            \* ConversationHistory: the turns, oldest first
    directory,          \* config.directory
    model,              \* config.model
    systemPrompt,       \* config.systemPrompt (None: undefined)
    systemPromptAppend, \* config.systemPromptAppend (None: undefined)
    settingSources,     \* config.settingSources (<<>>: undefined)
    agentName,          \* config.agentName
    claudeCodePath,     \* SDKBackend.claudeCodePath was found
    phase,              \* how far shutdown (index.ts 179-188) has come
    currentSenderJid,   \* index.ts: the sender being handled ("null": none)
    typing,             \* the messages whose sendTyping() is awaited
    inbox,              \* the senders of the messages index.ts received
    replying,           \* the sendResponse calls awaited, by their place
    heard,              \* the last group message, as it was received
    update,             \* runUpdate: its step, the versions and the files
    lastOp              \* the handler that ran last, its inputs and its result

\* the permission machinery
permissionVars == <<permissionCallback, requests, pendingRequests, emitted>>

\* SessionState and HistoryLog
sessionVars == <<currentSessionId, forkNextQuery, history>>

\* the RuntimeConfig fields other than the mode
settingVars == <<directory, model, systemPrompt, systemPromptAppend,
                 settingSources, agentName>>

\* what the permission machinery leaves alone
conversationVars == <<sessionVars, settingVars, claudeCodePath, phase>>

\* the message delivery of index.ts
deliveryVars == <<currentSenderJid, typing, inbox, replying, heard>>

vars == <<mode, configMode, modeSwitched, queries, resuming, initialized,
          permissionVars, sessionVars,
          settingVars, claudeCodePath, phase, deliveryVars, update,
          lastOp>>

\* everything the self-update leaves alone
agentVars == <<mode, configMode, modeSwitched, queries, resuming, initialized,
               permissionVars, sessionVars, settingVars, claudeCodePath,
               phase, deliveryVars>>

\* replies: the sendResponse calls of the handler; reply: which message the
\* last of them sent; outcome: how a backend query ended
NoOp ==
    [op |-> "init", tool |-> "", text |-> <<>>, id |-> 0, allowed |-> FALSE,
     returned |-> FALSE, behavior |-> "", branch |-> "", delivered |-> FALSE,
     replies |-> 0, reply |-> "", outcome |-> "", given |-> <<>>,
     saved |-> <<>>]

Op(name) == [NoOp EXCEPT !.op = name]

pendingCount == Len(pendingRequests)

Ids == 1..Len(requests)

IsPending(id) == \E i \in 1..Len(pendingRequests) : pendingRequests[i] = id

MapDelete(m, id) == SelectSeq(m, LAMBDA x : x # id)

\* a ConversationTurn; its text and its timestamp are left out. stamp and
\* from tell which received message a turn came from (0: none recorded)
UserTurn == [role |-> "user", stamp |-> 0, from |-> ""]
AssistantTurn == [role |-> "assistant", stamp |-> 0, from |-> ""]

\* undefined (and the empty string, which the code treats alike)
None == <<>>

\* the ids a session can have
SessionIds == { <<"s", "1">>, <<"s", "2">> }

\* the directory the agent is started in, and the model it is started with
StartDirectory == <<"/", "w">>
StartModel == <<"s", "o", "n", "n", "e", "t", "-", "4">>

\* a prompt text a config file or the command line can give
StartPrompt == <<"p", "0">>

\* the state after parseConfig (cli/config.ts 244-251), the SDKBackend
\* constructor (sdk-backend.ts 49-68) and the ConversationManager constructor
Init ==
    /\ mode \in Modes
    /\ configMode = mode
    /\ permissionCallback = FALSE
    /\ queries = {}
    /\ resuming = {}
    /\ initialized = {}
    /\ requests = <<>>
    /\ pendingRequests = <<>>
    /\ emitted = 0
    /\ modeSwitched = FALSE
    /\ currentSessionId \in {None} \cup SessionIds
    /\ forkNextQuery \in BOOLEAN
    /\ history = <<>>
    /\ directory = StartDirectory
    /\ model = StartModel
    /\ systemPrompt \in {None, StartPrompt}
    /\ systemPromptAppend \in {None, StartPrompt}
    /\ settingSources \in {<<>>, <<<<"u", "s", "e", "r">>>>}
    /\ agentName = <<"b", "o", "t">>
    /\ claudeCodePath \in BOOLEAN
    /\ phase = "running"
    /\ currentSenderJid = "null"
    /\ typing = <<>>
    /\ inbox = <<>>
    /\ replying = <<>>
    /\ heard = <<>>
    /\ update = [pc |-> "idle", current |-> <<>>, latest |-> <<>>,
                 exec |-> "old", temp |-> "none", backup |-> "none"]
    /\ lastOp = NoOp

(* --------------------------- PermissionManager ------------------------- *)
\* the promise's resolve function: the first call settles it, and the code
\* after the await (sdk-backend.ts 318-325) runs on that value
PromiseResolve(reqs, id, allowed) ==
    [reqs EXCEPT ![id].resolveCalls = @ + 1,
                 ![id].query = 0,
                 ![id].settled = IF @ = "none"
                                 THEN (IF allowed THEN "true" ELSE "false")
                                 ELSE @,
                 ![id].result = IF reqs[id].settled = "none"
                                THEN BehaviorOfAnswer(allowed)
                                ELSE @]

\* variant: no timer is armed for the request
NewRequestWithoutTimer(q) ==
    [query |-> q, settled |-> "none", result |-> "pending", timer |-> "fired",
     resolveCalls |-> 0]

\* a new request: its promise unsettled, its timer armed, and the tool call
\* of query q suspended on it
NewRequest(q) ==
    [query |-> q, settled |-> "none", result |-> "pending", timer |-> "armed",
     resolveCalls |-> 0]

\* variant: the oldest entry of the registry
oldestRequest(pending) == pending[1]

\* newest entry of the registry
latestRequest(pending) == pending[Len(pending)]

\* variant: any text that starts with Y counts as a yes
isYesByPrefix(trimmed) ==
    \/ trimmed # <<>> /\ Head(trimmed) = "Y"
    \/ trimmed = <<"A", "L", "L", "O", "W">>

isYes(trimmed) ==
    trimmed \in { <<"Y">>, <<"Y", "E", "S">>, <<"A", "L", "L", "O", "W">> }

isNo(trimmed) ==
    trimmed \in { <<"N">>, <<"N", "O">>, <<"D", "E", "N", "Y">> }

\* the return value of tryResolveFromMessage
tryResolveReturns(message, pending) ==
    /\ isYes(toUpperCase(trim(message))) \/ isNo(toUpperCase(trim(message)))
    /\ Len(pending) # 0

\* the resolve closure of a request (permissions.ts 34-37)
requestResolve(id, allowed) ==
    /\ pendingRequests' = MapDelete(pendingRequests, id)
    /\ requests' = PromiseResolve(requests, id, allowed)

\* requestPermission (permissions.ts 21-54), reached through the callback the
\* ConversationManager constructor registers; the prompt is sent by
\* handlePermissionRequest (index.ts 152-176), whose failure is only logged
requestPermission(q) ==
    /\ Len(requests) < MaxRequests
    /\ requests' = Append(requests, NewRequest(q))
    /\ pendingRequests' = Append(pendingRequests, Len(requests) + 1)
    /\ emitted' = emitted + 1

\* variant: the timer callback does not look at the registry
TimeoutFiresUnguarded(id) ==
    /\ id \in Ids
    /\ requests[id].timer = "armed"
    /\ pendingRequests' = MapDelete(pendingRequests, id)
    /\ requests' = [PromiseResolve(requests, id, FALSE)
                       EXCEPT ![id].timer = "fired"]
    /\ lastOp' = [Op("timeout") EXCEPT !.id = id, !.returned = IsPending(id)]
    /\ UNCHANGED <<mode, configMode, permissionCallback, queries, resuming, emitted,
                   modeSwitched>>
    /\ UNCHANGED conversationVars
    /\ UNCHANGED deliveryVars
    /\ UNCHANGED initialized
    /\ UNCHANGED update

\* variant: the timer callback denies but leaves the entry in the registry
TimeoutFiresKeepsEntry(id) ==
    /\ id \in Ids
    /\ requests[id].timer = "armed"
    /\ IF IsPending(id)
       THEN requests' = [PromiseResolve(requests, id, FALSE)
                            EXCEPT ![id].timer = "fired"]
       ELSE requests' = [requests EXCEPT ![id].timer = "fired"]
    /\ lastOp' = [Op("timeout") EXCEPT !.id = id, !.returned = IsPending(id)]
    /\ UNCHANGED <<mode, configMode, permissionCallback, queries, resuming, emitted,
                   modeSwitched, pendingRequests>>
    /\ UNCHANGED conversationVars
    /\ UNCHANGED deliveryVars
    /\ UNCHANGED initialized
    /\ UNCHANGED update

\* the timer callback of a request (permissions.ts 46-52)
TimeoutFires(id) ==
    /\ id \in Ids
    /\ requests[id].timer = "armed"
    /\ IF IsPending(id)
       THEN /\ pendingRequests' = MapDelete(pendingRequests, id)
            /\ requests' = [PromiseResolve(requests, id, FALSE)
                               EXCEPT ![id].timer = "fired"]
       ELSE /\ requests' = [requests EXCEPT ![id].timer = "fired"]
            /\ UNCHANGED pendingRequests
    /\ lastOp' = [Op("timeout") EXCEPT !.id = id, !.returned = IsPending(id)]
    /\ UNCHANGED <<mode, configMode, permissionCallback, queries, resuming, emitted,
                   modeSwitched>>
    /\ UNCHANGED conversationVars
    /\ UNCHANGED deliveryVars
    /\ UNCHANGED initialized
    /\ UNCHANGED update

\* ConversationManager.resolvePermission -> PermissionManager.resolvePermission
resolvePermission(requestId, allowed) ==
    /\ permissionCallback
    /\ IF IsPending(requestId)
       THEN requestResolve(requestId, allowed)
       ELSE UNCHANGED <<requests, pendingRequests>>
    /\ lastOp' = [Op("resolvePermission") EXCEPT !.id = requestId,
                     !.allowed = allowed, !.returned = IsPending(requestId)]
    /\ UNCHANGED <<mode, configMode, permissionCallback, queries, resuming, emitted,
                   modeSwitched>>
    /\ UNCHANGED conversationVars
    /\ UNCHANGED deliveryVars
    /\ UNCHANGED initialized
    /\ UNCHANGED update

RECURSIVE cancelEach(_, _)
cancelEach(reqs, ids) ==
    IF ids = <<>> THEN reqs
    ELSE cancelEach(PromiseResolve(reqs, Head(ids), FALSE), Tail(ids))

\* variant: the registry is emptied and no promise is resolved
cancelAllDropsEntries ==
    /\ UNCHANGED requests
    /\ pendingRequests' = <<>>

\* PermissionManager.cancelAll
cancelAll ==
    /\ requests' = cancelEach(requests, pendingRequests)
    /\ pendingRequests' = <<>>

\* ConversationManager.dispose, the first statement of shutdown (index.ts
\* 182); queue.clear() empties a queue nothing is put into
dispose ==
    /\ permissionCallback
    /\ phase = "running"
    /\ cancelAll
    /\ history' = <<>>
    /\ phase' = "disposed"
    /\ lastOp' = [Op("dispose") EXCEPT !.id = pendingCount]
    /\ UNCHANGED <<mode, configMode, modeSwitched, queries, resuming, permissionCallback,
                   emitted, currentSessionId, forkNextQuery, settingVars,
                   claudeCodePath>>
    /\ UNCHANGED deliveryVars
    /\ UNCHANGED initialized
    /\ UNCHANGED update

\* shutdown, second statement: backend.stop() (sdk-backend.ts 337-340), which
\* ends no query
backendStop ==
    /\ phase = "disposed"
    /\ phase' = "stopped"
    /\ lastOp' = Op("stop")
    /\ UNCHANGED <<mode, configMode, modeSwitched, queries, resuming, permissionVars,
                   sessionVars, settingVars, claudeCodePath>>
    /\ UNCHANGED deliveryVars
    /\ UNCHANGED initialized
    /\ UNCHANGED update

\* shutdown, last statements: whatsapp.disconnect() and process.exit(0)
disconnectAndExit ==
    /\ phase = "stopped"
    /\ phase' = "exited"
    /\ lastOp' = Op("exit")
    /\ UNCHANGED <<mode, configMode, modeSwitched, queries, resuming, permissionVars,
                   sessionVars, settingVars, claudeCodePath>>
    /\ UNCHANGED deliveryVars
    /\ UNCHANGED initialized
    /\ UNCHANGED update

(* ------------------------------ SDKBackend ----------------------------- *)
FreeQuery == CHOOSE q \in 1..MaxQueries : q \notin queries

\* the first number of the whitelist (index.ts 155), as a chat address
FirstWhitelisted == "a"

\* handlePermissionRequest (index.ts 152-176): whom the prompt of a request
\* is sent to, decided when the request is emitted
handlePermissionRequest ==
    IF currentSenderJid # "null" THEN currentSenderJid ELSE FirstWhitelisted

\* variant: the permission request is made before the mode is looked at
handleToolPermissionAsksFirst(q, toolName, delivered) ==
    /\ q \in queries
    /\ LET b == PermissionBranch(mode, toolName, permissionCallback) IN
       /\ IF b = "ask" \/ (b = "deny" /\ permissionCallback)
          THEN /\ requestPermission(q)
               /\ lastOp' = [Op("toolPermission") EXCEPT !.tool = toolName,
                                !.behavior = b, !.id = Len(requests) + 1,
                                !.delivered = delivered,
                                !.given = <<handlePermissionRequest>>]
          ELSE /\ ~delivered
               /\ UNCHANGED <<requests, pendingRequests, emitted>>
               /\ lastOp' = [Op("toolPermission") EXCEPT !.tool = toolName,
                                !.behavior = b]
    /\ UNCHANGED <<mode, configMode, permissionCallback, queries, resuming, modeSwitched>>
    /\ UNCHANGED conversationVars
    /\ UNCHANGED deliveryVars
    /\ UNCHANGED initialized
    /\ UNCHANGED update

\* SDKBackend.handleToolPermission, called by the SDK during query q
handleToolPermission(q, toolName, delivered) ==
    /\ q \in queries
    /\ LET b == PermissionBranch(mode, toolName, permissionCallback) IN
       /\ IF b = "ask"
          THEN /\ requestPermission(q)
               /\ lastOp' = [Op("toolPermission") EXCEPT !.tool = toolName,
                                !.behavior = b, !.id = Len(requests) + 1,
                                !.delivered = delivered,
                                !.given = <<handlePermissionRequest>>]
          ELSE /\ ~delivered
               /\ UNCHANGED <<requests, pendingRequests, emitted>>
               /\ lastOp' = [Op("toolPermission") EXCEPT !.tool = toolName,
                                !.behavior = b]
    /\ UNCHANGED <<mode, configMode, permissionCallback, queries, resuming, modeSwitched>>
    /\ UNCHANGED conversationVars
    /\ UNCHANGED deliveryVars
    /\ UNCHANGED initialized
    /\ UNCHANGED update

\* the start of SDKBackend.query (sdk-backend.ts 127-180): without the
\* executable it returns an error at once; with a session id it resumes the
\* session and uses up the fork flag
queryAs(q) ==
    IF ~claudeCodePath
    THEN UNCHANGED <<queries, resuming, forkNextQuery>>
    ELSE /\ queries' = queries \cup {q}
         /\ resuming' = IF currentSessionId # None
                        THEN resuming \cup {q} ELSE resuming
         /\ forkNextQuery' =
               IF currentSessionId # None THEN FALSE ELSE forkNextQuery

\* a query under the first free id
query == queryAs(FreeQuery)

\* variant: the callback is invoked for every init message
systemInitMessageAlwaysNotifies(q, sid) ==
    /\ q \in queries
    /\ q \notin initialized
    /\ initialized' = initialized \cup {q}
    /\ currentSessionId' = sid
    /\ lastOp' = [Op("init message") EXCEPT !.id = q, !.text = sid,
                                            !.returned = TRUE]
    /\ UNCHANGED <<mode, configMode, modeSwitched, queries, resuming, permissionVars,
                   forkNextQuery, history, settingVars, claudeCodePath, phase>>
    /\ UNCHANGED deliveryVars
    /\ UNCHANGED update

\* the init message of the SDK during query q (sdk-backend.ts 220-235), which
\* the SDK sends once in a query; returned: onSessionCreated, registered by
\* index.ts (51), was invoked
systemInitMessage(q, sid) ==
    /\ q \in queries
    /\ q \notin initialized
    /\ initialized' = initialized \cup {q}
    /\ currentSessionId' = sid
    /\ lastOp' = [Op("init message") EXCEPT !.id = q, !.text = sid,
                                            !.returned = currentSessionId # sid]
    /\ UNCHANGED <<mode, configMode, modeSwitched, queries, resuming, permissionVars,
                   forkNextQuery, history, settingVars, claudeCodePath, phase>>
    /\ UNCHANGED deliveryVars
    /\ UNCHANGED update

\* what a query can end with: a result, an error, or the error of a Claude
\* process that exited ("process exited with code")
Outcomes == {"success", "error", "exit"}

\* the end of query q (sdk-backend.ts 237-274), once none of its tool calls
\* waits for an answer, and the rest of processWithClaude (manager.ts
\* 672-690) when a ConversationManager made the query
queryEnds(q, outcome) ==
    /\ q \in queries
    /\ \A id \in Ids : requests[id].query = q => requests[id].result # "pending"
    /\ (permissionCallback /\ outcome = "success") => Len(history) < MaxTurns
    /\ queries' = queries \ {q}
    /\ resuming' = resuming \ {q}
    /\ initialized' = initialized \ {q}
    /\ LET resumeFailed == outcome = "exit" /\ currentSessionId # None IN
       /\ currentSessionId' = IF resumeFailed THEN None ELSE currentSessionId
       /\ history' =
             IF permissionCallback /\ outcome = "success"
             THEN Append(history, AssistantTurn)
             ELSE history
       /\ lastOp' = [Op("complete") EXCEPT
                        !.id = q,
                        !.outcome = IF resumeFailed THEN "resumeFailed"
                                    ELSE IF outcome = "success" THEN "success"
                                    ELSE "error",
                        !.replies = IF permissionCallback THEN 1 ELSE 0,
                        !.reply = IF ~permissionCallback THEN ""
                                  ELSE IF outcome = "success" THEN "response"
                                  ELSE IF resumeFailed THEN "resendMessage"
                                  ELSE "error"]
    /\ UNCHANGED <<mode, configMode, modeSwitched, permissionVars,
                   forkNextQuery, settingVars, claudeCodePath, phase>>

\* the end of a query whose message was given to the ConversationManager
\* directly, or to the backend
QueryComplete(q, outcome) ==
    /\ queryEnds(q, outcome)
    /\ UNCHANGED deliveryVars
    /\ UNCHANGED update

\* SDKBackend.query called on a backend that no ConversationManager wraps
BackendQuery ==
    /\ ~permissionCallback
    /\ claudeCodePath => Cardinality(queries) < MaxQueries
    /\ query
    /\ lastOp' = [Op("query") EXCEPT
                     !.id = IF claudeCodePath THEN FreeQuery ELSE 0,
                     !.outcome = IF claudeCodePath THEN "started"
                                 ELSE "noExecutable"]
    /\ UNCHANGED <<mode, configMode, modeSwitched, permissionVars,
                   currentSessionId, history, settingVars, claudeCodePath,
                   phase>>
    /\ UNCHANGED deliveryVars
    /\ UNCHANGED initialized
    /\ UNCHANGED update

(* -------------------------- ConversationManager ------------------------ *)
\* the constructor registers the permission callback
ConstructManager ==
    /\ ~permissionCallback
    /\ queries = {}
    /\ permissionCallback' = TRUE
    /\ lastOp' = Op("construct")
    /\ UNCHANGED <<mode, configMode, queries, resuming, requests, pendingRequests,
                   emitted, modeSwitched>>
    /\ UNCHANGED conversationVars
    /\ UNCHANGED deliveryVars
    /\ UNCHANGED initialized
    /\ UNCHANGED update

\* variant: the backend is not told about the new mode
setModeConfigOnly(m) ==
    /\ configMode' = m
    /\ UNCHANGED mode

\* ConversationManager.setMode
setMode(m) ==
    /\ configMode' = m
    /\ mode' = m

isCommand(text) == trimStart(text) # <<>> /\ Head(trimStart(text)) = "/"

RECURSIVE firstToken(_)
firstToken(s) ==
    IF s = <<>> \/ Head(s) \in Whitespace THEN <<>>
    ELSE <<Head(s)>> \o firstToken(Tail(s))

\* parseCommand(text).command
commandName(text) == toLowerCase(firstToken(Tail(trimStart(text))))

\* the mode a command name switches to (handleCommand 92-129), or "none"
ModeOfCommand(name) ==
    CASE name \in { <<"r", "e", "a", "d", "o", "n", "l", "y">>,
                    <<"p", "l", "a", "n">> } -> "plan"
      [] name \in { <<"n", "o", "r", "m", "a", "l">>,
                    <<"d", "e", "f", "a", "u", "l", "t">> } -> "default"
      [] name \in { <<"a", "c", "c", "e", "p", "t", "e", "d", "i", "t", "s">>,
                    <<"a", "c", "c", "e", "p", "t", "-", "e", "d", "i", "t", "s">> }
            -> "acceptEdits"
      [] name \in { <<"y", "o", "l", "o">>, <<"b", "y", "p", "a", "s", "s">>,
                    <<"b", "y", "p", "a", "s", "s", "p", "e", "r", "m", "i", "s",
                      "s", "i", "o", "n", "s">> } -> "bypassPermissions"
      [] name \in { <<"d", "o", "n", "t", "a", "s", "k">>,
                    <<"d", "o", "n", "t", "-", "a", "s", "k">> } -> "dontAsk"
      [] OTHER -> "none"

\* variant: the text is compared as it was typed
parseModeCommandCaseSensitive(text) ==
    CASE trim(text) \in { <<"/", "p", "l", "a", "n">>, <<"/", "r", "e", "a", "d", "o", "n", "l", "y">> } -> "plan"
      [] trim(text) \in { <<"/", "d", "e", "f", "a", "u", "l", "t">>, <<"/", "n", "o", "r", "m", "a", "l">> } -> "default"
      [] trim(text) \in { <<"/", "a", "c", "c", "e", "p", "t", "e", "d", "i", "t", "s">>,
                   <<"/", "a", "c", "c", "e", "p", "t", "-", "e", "d", "i", "t", "s">> } -> "acceptEdits"
      [] trim(text) \in { <<"/", "b", "y", "p", "a", "s", "s", "p", "e", "r", "m", "i", "s", "s", "i", "o", "n", "s">>,
                   <<"/", "b", "y", "p", "a", "s", "s">>, <<"/", "y", "o", "l", "o">> } -> "bypassPermissions"
      [] trim(text) \in { <<"/", "d", "o", "n", "t", "a", "s", "k">>, <<"/", "d", "o", "n", "t", "-", "a", "s", "k">> } -> "dontAsk"
      [] OTHER -> "none"

\* parseModeCommand (permissions.ts 138-161); "none" stands for null
parseModeCommand(text) ==
    CASE toLowerCase(trim(text)) \in { <<"/", "p", "l", "a", "n">>, <<"/", "r", "e", "a", "d", "o", "n", "l", "y">> } -> "plan"
      [] toLowerCase(trim(text)) \in { <<"/", "d", "e", "f", "a", "u", "l", "t">>, <<"/", "n", "o", "r", "m", "a", "l">> } -> "default"
      [] toLowerCase(trim(text)) \in { <<"/", "a", "c", "c", "e", "p", "t", "e", "d", "i", "t", "s">>,
                   <<"/", "a", "c", "c", "e", "p", "t", "-", "e", "d", "i", "t", "s">> } -> "acceptEdits"
      [] toLowerCase(trim(text)) \in { <<"/", "b", "y", "p", "a", "s", "s", "p", "e", "r", "m", "i", "s", "s", "i", "o", "n", "s">>,
                   <<"/", "b", "y", "p", "a", "s", "s">>, <<"/", "y", "o", "l", "o">> } -> "bypassPermissions"
      [] toLowerCase(trim(text)) \in { <<"/", "d", "o", "n", "t", "a", "s", "k">>, <<"/", "d", "o", "n", "t", "-", "a", "s", "k">> } -> "dontAsk"
      [] OTHER -> "none"

\* every alias of a mode command
ModeAliases ==
    { <<"p", "l", "a", "n">>, <<"r", "e", "a", "d", "o", "n", "l", "y">>, <<"d", "e", "f", "a", "u", "l", "t">>, <<"n", "o", "r", "m", "a", "l">>,
      <<"a", "c", "c", "e", "p", "t", "e", "d", "i", "t", "s">>, <<"a", "c", "c", "e", "p", "t", "-", "e", "d", "i", "t", "s">>,
      <<"b", "y", "p", "a", "s", "s", "p", "e", "r", "m", "i", "s", "s", "i", "o", "n", "s">>, <<"b", "y", "p", "a", "s", "s">>, <<"y", "o", "l", "o">>,
      <<"d", "o", "n", "t", "a", "s", "k">>, <<"d", "o", "n", "t", "-", "a", "s", "k">> }

\* the two alias tables side by side: parseModeCommand and the cases of
\* handleCommand give every alias, in lower and in upper case, the same mode
AliasTablesAgree ==
    /\ \A a \in ModeAliases :
          /\ ModeOfCommand(a) # "none"
          /\ parseModeCommand(<<"/">> \o a) = ModeOfCommand(a)
          /\ parseModeCommand(<<"/">> \o toUpperCase(a)) = ModeOfCommand(a)
          /\ ModeOfCommand(commandName(<<"/">> \o toUpperCase(a)))
                = ModeOfCommand(a)
    /\ {ModeOfCommand(a) : a \in ModeAliases} = Modes

RECURSIVE restAfterToken(_)
restAfterToken(s) ==
    IF s = <<>> \/ Head(s) \in Whitespace THEN s ELSE restAfterToken(Tail(s))

\* parseCommand(text).args
commandArgs(text) == trimStart(restAfterToken(Tail(trimStart(text))))

\* the lastOp of a command that sent one reply
Replied(text, tag) ==
    [Op("message") EXCEPT !.text = text, !.branch = "command", !.replies = 1,
                          !.reply = tag]

\* a command that only replies
replyOnly(text, tag) ==
    /\ lastOp' = Replied(text, tag)
    /\ UNCHANGED <<mode, configMode, modeSwitched, sessionVars, settingVars>>

\* variant: a mode command ends the session like a directory change
modeCommandEndsSession(text, m) ==
    /\ setMode(m)
    /\ modeSwitched' = TRUE
    /\ currentSessionId' = None
    /\ history' = <<>>
    /\ lastOp' = Replied(text, "modeSwitched")
    /\ UNCHANGED <<forkNextQuery, settingVars>>

\* a mode command (handleCommand 92-129)
modeCommand(text, m) ==
    /\ setMode(m)
    /\ modeSwitched' = TRUE
    /\ lastOp' = Replied(text, "modeSwitched")
    /\ UNCHANGED <<sessionVars, settingVars>>

\* /clear (handleCommand 87-90)
clearCommand(text) ==
    /\ history' = <<>>
    /\ lastOp' = Replied(text, "cleared")
    /\ UNCHANGED <<mode, configMode, modeSwitched, currentSessionId,
                   forkNextQuery, settingVars>>

\* "if (currentSessionId) { setSessionId(undefined); history.clear() }"
clearSessionIfActive ==
    IF currentSessionId # None
    THEN /\ currentSessionId' = None
         /\ history' = <<>>
    ELSE UNCHANGED <<currentSessionId, history>>

\* variant: the appended text is kept
setSystemPromptKeepsAppend(prompt) ==
    /\ systemPrompt' = prompt
    /\ UNCHANGED systemPromptAppend

\* ClaudeBackend.setSystemPrompt
setSystemPrompt(prompt) ==
    /\ systemPrompt' = prompt
    /\ systemPromptAppend' = None

\* ClaudeBackend.setSystemPromptAppend
setSystemPromptAppend(appended) ==
    /\ systemPromptAppend' = appended
    /\ systemPrompt' = None

ClearWords == { <<"c", "l", "e", "a", "r">>, <<"r", "e", "s", "e", "t">> }

handleSystemPromptCommand(text, args) ==
    IF args = <<>>
    THEN replyOnly(text, "promptShown")
    ELSE /\ clearSessionIfActive
         /\ setSystemPrompt(IF toLowerCase(args) \in ClearWords
                            THEN None ELSE args)
         /\ lastOp' = Replied(text, IF toLowerCase(args) \in ClearWords
                                    THEN "promptReset" ELSE "promptSet")
         /\ UNCHANGED <<mode, configMode, modeSwitched, forkNextQuery,
                        directory, model, settingSources, agentName>>

\* variant: setting a session id also starts the conversation afresh
handleSessionCommandClearsHistory(text, args) ==
    IF args = <<>>
    THEN replyOnly(text, "sessionShown")
    ELSE IF toLowerCase(args) \in { <<"c", "l", "e", "a", "r">>, <<"n", "e", "w">> }
    THEN /\ currentSessionId' = None
         /\ history' = <<>>
         /\ lastOp' = Replied(text, "sessionCleared")
         /\ UNCHANGED <<mode, configMode, modeSwitched, forkNextQuery,
                        settingVars>>
    ELSE /\ currentSessionId' = args
         /\ history' = <<>>
         /\ lastOp' = Replied(text, "sessionSet")
         /\ UNCHANGED <<mode, configMode, modeSwitched, forkNextQuery,
                        settingVars>>

handlePromptAppendCommand(text, args) ==
    IF args = <<>>
    THEN replyOnly(text, "appendShown")
    ELSE /\ clearSessionIfActive
         /\ setSystemPromptAppend(IF toLowerCase(args) \in ClearWords
                                  THEN None ELSE args)
         /\ lastOp' = Replied(text, IF toLowerCase(args) \in ClearWords
                                    THEN "appendCleared" ELSE "appendSet")
         /\ UNCHANGED <<mode, configMode, modeSwitched, forkNextQuery,
                        directory, model, settingSources, agentName>>

handleSessionCommand(text, args) ==
    IF args = <<>>
    THEN replyOnly(text, "sessionShown")
    ELSE IF toLowerCase(args) \in { <<"c", "l", "e", "a", "r">>, <<"n", "e", "w">> }
    THEN /\ currentSessionId' = None
         /\ history' = <<>>
         /\ lastOp' = Replied(text, "sessionCleared")
         /\ UNCHANGED <<mode, configMode, modeSwitched, forkNextQuery,
                        settingVars>>
    ELSE /\ currentSessionId' = args
         /\ lastOp' = Replied(text, "sessionSet")
         /\ UNCHANGED <<mode, configMode, modeSwitched, forkNextQuery,
                        history, settingVars>>

\* variant: the fork flag is set whether or not there is a session
handleForkCommandUnchecked(text) ==
    /\ forkNextQuery' = TRUE
    /\ lastOp' = Replied(text, IF currentSessionId = None
                               THEN "noSessionToFork" ELSE "forkEnabled")
    /\ UNCHANGED <<mode, configMode, modeSwitched, currentSessionId,
                   history, settingVars>>

handleForkCommand(text) ==
    IF currentSessionId = None
    THEN replyOnly(text, "noSessionToFork")
    ELSE /\ forkNextQuery' = TRUE
         /\ lastOp' = Replied(text, "forkEnabled")
         /\ UNCHANGED <<mode, configMode, modeSwitched, currentSessionId,
                        history, settingVars>>

\* os.homedir()
HomeDirectory == <<"/", "h">>

\* path.resolve on an absolute path: a trailing separator is dropped
resolvePath(path) ==
    IF Len(path) > 1 /\ path[Len(path)] = "/"
    THEN SubSeq(path, 1, Len(path) - 1) ELSE path

\* the path /cd looks at (handleDirectoryCommand 360-366)
targetPathOf(args) ==
    IF Head(args) = "~"
    THEN resolvePath(HomeDirectory \o (IF Len(args) > 2
                                       THEN <<"/">> \o SubSeq(args, 3, Len(args))
                                       ELSE <<>>))
    ELSE resolvePath(args)

\* variant: every path that exists counts as a directory
PathKindExistsOnly(path) ==
    CASE path \in { <<"/", "w">>, <<"/", "d">>, <<"/", "h">>, <<"/", "f">> } -> "directory"
      [] path = <<"/", "z">> -> "no access"
      [] OTHER -> "missing"

\* the file system: what existsSync and statSync find at a path
PathKind(path) ==
    CASE path \in { <<"/", "w">>, <<"/", "d">>, <<"/", "h">> } -> "directory"
      [] path = <<"/", "f">> -> "file"
      [] path = <<"/", "z">> -> "no access"
      [] OTHER -> "missing"

handleDirectoryCommand(text, args) ==
    IF args = <<>>
    THEN replyOnly(text, "directoryShown")
    ELSE IF PathKind(targetPathOf(args)) = "missing"
    THEN replyOnly(text, "directoryNotFound")
    ELSE IF PathKind(targetPathOf(args)) = "file"
    THEN replyOnly(text, "notADirectory")
    ELSE IF PathKind(targetPathOf(args)) = "no access"
    THEN replyOnly(text, "cannotAccess")
    ELSE /\ clearSessionIfActive
         /\ directory' = targetPathOf(args)
         /\ lastOp' = Replied(text, "directoryChanged")
         /\ UNCHANGED <<mode, configMode, modeSwitched, forkNextQuery, model,
                        systemPrompt, systemPromptAppend, settingSources,
                        agentName>>

\* the model a name stands for, or None
resolveModelShorthand(input) ==
    CASE toLowerCase(input) \in { <<"o", "p", "u", "s">>, <<"o", "p", "u", "s", "-", "4">> } -> <<"o", "p", "u", "s", "-", "4">>
      [] toLowerCase(input) \in { <<"s", "o", "n", "n", "e", "t">>, <<"s", "o", "n", "n", "e", "t", "-", "4">> } -> <<"s", "o", "n", "n", "e", "t", "-", "4">>
      [] OTHER -> None

\* variant: the model is changed before the shorthand is looked up
handleModelCommandSetsFirst(text, args) ==
    IF args = <<>>
    THEN replyOnly(text, "modelShown")
    ELSE /\ clearSessionIfActive
         /\ model' = IF resolveModelShorthand(trim(args)) = None
                     THEN trim(args)
                     ELSE resolveModelShorthand(trim(args))
         /\ lastOp' = Replied(text, IF resolveModelShorthand(trim(args)) = None
                                    THEN "unknownModel" ELSE "modelChanged")
         /\ UNCHANGED <<mode, configMode, modeSwitched, forkNextQuery,
                        directory, systemPrompt, systemPromptAppend,
                        settingSources, agentName>>

handleModelCommand(text, args) ==
    IF args = <<>>
    THEN replyOnly(text, "modelShown")
    ELSE IF resolveModelShorthand(trim(args)) = None
    THEN replyOnly(text, "unknownModel")
    ELSE /\ clearSessionIfActive
         /\ model' = resolveModelShorthand(trim(args))
         /\ lastOp' = Replied(text, "modelChanged")
         /\ UNCHANGED <<mode, configMode, modeSwitched, forkNextQuery,
                        directory, systemPrompt, systemPromptAppend,
                        settingSources, agentName>>

handleNameCommand(text, args) ==
    IF args = <<>>
    THEN replyOnly(text, "nameShown")
    ELSE IF trim(args) = <<>>
    THEN replyOnly(text, "nameEmpty")
    ELSE /\ agentName' = trim(args)
         /\ lastOp' = Replied(text, "nameChanged")
         /\ UNCHANGED <<mode, configMode, modeSwitched, sessionVars, directory,
                        model, systemPrompt, systemPromptAppend,
                        settingSources>>

\* String.prototype.split(',')
RECURSIVE splitComma(_)
splitComma(s) ==
    IF \A i \in 1..Len(s) : s[i] # ","
    THEN <<s>>
    ELSE LET k == CHOOSE i \in 1..Len(s) :
                     s[i] = "," /\ \A h \in 1..(i - 1) : s[h] # ","
         IN <<SubSeq(s, 1, k - 1)>> \o splitComma(SubSeq(s, k + 1, Len(s)))

\* the sources /claudemd asks for (handleClaudeMdCommand 525-528)
requestedSources(args) ==
    SelectSeq([i \in 1..Len(splitComma(args)) |->
                  toLowerCase(trim(splitComma(args)[i]))],
              LAMBDA src : src # <<>>)

validSources == { <<"u", "s", "e", "r">>, <<"p", "r", "o", "j", "e", "c", "t">>, <<"l", "o", "c", "a", "l">> }

handleClaudeMdCommand(text, args) ==
    IF args = <<>>
    THEN replyOnly(text, "sourcesShown")
    ELSE IF toLowerCase(args) \in { <<"c", "l", "e", "a", "r">>, <<"n", "o", "n", "e">> }
    THEN /\ settingSources' = <<>>
         /\ lastOp' = Replied(text, "sourcesDisabled")
         /\ UNCHANGED <<mode, configMode, modeSwitched, sessionVars, directory,
                        model, systemPrompt, systemPromptAppend, agentName>>
    ELSE IF \E i \in 1..Len(requestedSources(args)) :
               requestedSources(args)[i] \notin validSources
    THEN replyOnly(text, "invalidSources")
    ELSE /\ settingSources' = requestedSources(args)
         /\ lastOp' = Replied(text, "sourcesSet")
         /\ UNCHANGED <<mode, configMode, modeSwitched, sessionVars, directory,
                        model, systemPrompt, systemPromptAppend, agentName>>

\* SAVEABLE_KEYS (config.ts 41-55)
SAVEABLE_KEYS ==
    {"whitelist", "directory", "mode", "sessionPath", "model", "maxTurns",
     "processMissed", "missedThresholdMins", "verbose", "agentName",
     "systemPrompt", "systemPromptAppend", "settingSources"}

\* the optional fields of ConfigSchema: undefined when they hold nothing
OptionalKeys ==
    {"maxTurns", "systemPrompt", "systemPromptAppend", "settingSources",
     "resumeSessionId", "agentName", "joinWhatsAppGroup"}

\* this.config of the running agent; resumeSessionId and forkSession are the
\* startup options, which SDKBackend copied when it was constructed
Config(resumeSessionId, forkSession) ==
    [directory |-> directory, mode |-> configMode,
     whitelist |-> << <<"+", "1">> >>, sessionPath |-> <<"~">>,
     model |-> model, maxTurns |-> None, processMissed |-> FALSE,
     missedThresholdMins |-> 60, verbose |-> FALSE,
     systemPrompt |-> systemPrompt,
     systemPromptAppend |-> systemPromptAppend,
     settingSources |-> settingSources,
     resumeSessionId |-> resumeSessionId, forkSession |-> forkSession,
     agentName |-> agentName, joinWhatsAppGroup |-> None,
     allowAllGroupParticipants |-> FALSE]

\* config[key] !== undefined
IsDefined(config, key) == key \in OptionalKeys => config[key] # None

\* variant: every defined field is written
saveConfigFileEveryField(config) ==
    [key \in {k \in DOMAIN config : IsDefined(config, k)} |-> config[key]]

\* saveConfigFile (config.ts 61-82): the document written to the file
saveConfigFile(config) ==
    [key \in {k \in SAVEABLE_KEYS \cap DOMAIN config : IsDefined(config, k)}
        |-> config[key]]

\* /config (manager.ts 543-614): no subcommand changes the running state;
\* save writes the file, or replies the error of the write
handleConfigCommand(text, args) ==
    IF toLowerCase(trim(args)) = <<"s", "a", "v", "e">>
    THEN /\ \E resumeSessionId \in {None} \cup SessionIds,
               forkSession \in BOOLEAN, written \in BOOLEAN :
               lastOp' =
                  IF written
                  THEN [Replied(text, "configSaved") EXCEPT
                           !.given = <<resumeSessionId, forkSession>>,
                           !.saved = saveConfigFile(Config(resumeSessionId,
                                                           forkSession))]
                  ELSE Replied(text, "configSaveFailed")
         /\ UNCHANGED <<mode, configMode, modeSwitched, sessionVars,
                        settingVars>>
    ELSE replyOnly(text,
        CASE toLowerCase(trim(args)) \in { <<>>, <<"s", "h", "o", "w">>, <<"l", "i", "s", "t">> } -> "configShown"
          [] toLowerCase(trim(args)) = <<"p", "a", "t", "h">> -> "configPath"
          [] toLowerCase(trim(args)) \in { <<"g", "e", "n", "e", "r", "a", "t", "e">>, <<"t", "e", "m", "p", "l", "a", "t", "e">> } -> "configTemplate"
          [] toLowerCase(trim(args)) = <<"r", "e", "l", "o", "a", "d">> -> "configFile"
          [] OTHER -> "unknownConfigCommand")

\* handleCommand (manager.ts 79-195)
handleCommand(text) ==
    /\ LET name == commandName(text)
           args == commandArgs(text)
       IN
       IF ModeOfCommand(name) # "none" THEN modeCommand(text, ModeOfCommand(name))
       ELSE IF name = <<"c", "l", "e", "a", "r">> THEN clearCommand(text)
       ELSE IF name = <<"m", "o", "d", "e">> THEN replyOnly(text, "modeShown")
       ELSE IF name = <<"h", "e", "l", "p">> THEN replyOnly(text, "help")
       ELSE IF name = <<"s", "t", "a", "t", "u", "s">> THEN replyOnly(text, "status")
       ELSE IF name \in { <<"s", "y", "s", "t", "e", "m", "p", "r", "o", "m", "p", "t">>, <<"p", "r", "o", "m", "p", "t">> } THEN handleSystemPromptCommand(text, args)
       ELSE IF name \in { <<"p", "r", "o", "m", "p", "t", "a", "p", "p", "e", "n", "d">>, <<"a", "p", "p", "e", "n", "d", "p", "r", "o", "m", "p", "t">> } THEN handlePromptAppendCommand(text, args)
       ELSE IF name \in { <<"c", "l", "a", "u", "d", "e", "m", "d">>, <<"s", "e", "t", "t", "i", "n", "g", "s">> } THEN handleClaudeMdCommand(text, args)
       ELSE IF name = <<"s", "e", "s", "s", "i", "o", "n">> THEN handleSessionCommand(text, args)
       ELSE IF name = <<"f", "o", "r", "k">> THEN handleForkCommand(text)
       ELSE IF name \in { <<"c", "d">>, <<"d", "i", "r">>, <<"d", "i", "r", "e", "c", "t", "o", "r", "y">> } THEN handleDirectoryCommand(text, args)
       ELSE IF name = <<"m", "o", "d", "e", "l">> THEN handleModelCommand(text, args)
       ELSE IF name = <<"m", "o", "d", "e", "l", "s">> THEN replyOnly(text, "models")
       ELSE IF name \in { <<"n", "a", "m", "e">>, <<"a", "g", "e", "n", "t", "n", "a", "m", "e">>, <<"a", "g", "e", "n", "t", "-", "n", "a", "m", "e">> } THEN handleNameCommand(text, args)
       ELSE IF name = <<"c", "o", "n", "f", "i", "g">> THEN handleConfigCommand(text, args)
       ELSE replyOnly(text, "unknownCommand")
    /\ UNCHANGED <<queries, resuming, permissionVars, claudeCodePath, phase>>

\* processWithClaude (manager.ts 653-671): the user turn is appended and the
\* backend is queried; without the executable the error is replied at once
processWithClaude(text) ==
    /\ Len(history) < MaxTurns
    /\ claudeCodePath => Cardinality(queries) < MaxQueries
    /\ history' = Append(history, UserTurn)
    /\ query
    /\ lastOp' = [Op("message") EXCEPT
                     !.text = text, !.branch = "conversation",
                     !.id = IF claudeCodePath THEN FreeQuery ELSE 0,
                     !.outcome = IF claudeCodePath THEN "started"
                                 ELSE "noExecutable",
                     !.replies = IF claudeCodePath THEN 0 ELSE 1,
                     !.reply = IF claudeCodePath THEN "" ELSE "error"]
    /\ UNCHANGED <<mode, configMode, modeSwitched, permissionVars,
                   currentSessionId, settingVars, claudeCodePath, phase>>

\* variant: the reply also goes on to the conversation as a user turn
tryResolveFromMessageKeepsText(text) ==
    /\ requestResolve(latestRequest(pendingRequests),
                      isYes(toUpperCase(trim(text))))
    /\ history' = Append(history, UserTurn)
    /\ lastOp' = [Op("message") EXCEPT !.text = text, !.branch = "permission",
                     !.returned = TRUE, !.id = latestRequest(pendingRequests),
                     !.allowed = isYes(toUpperCase(trim(text)))]
    /\ UNCHANGED <<mode, configMode, permissionCallback, queries, resuming, emitted,
                   modeSwitched, currentSessionId, forkNextQuery, settingVars,
                   claudeCodePath, phase>>

\* tryResolveFromMessage when it resolves: the newest pending request
tryResolveFromMessage(text) ==
    /\ requestResolve(latestRequest(pendingRequests),
                      isYes(toUpperCase(trim(text))))
    /\ lastOp' = [Op("message") EXCEPT !.text = text, !.branch = "permission",
                     !.returned = TRUE, !.id = latestRequest(pendingRequests),
                     !.allowed = isYes(toUpperCase(trim(text)))]
    /\ UNCHANGED <<mode, configMode, permissionCallback, queries, resuming, emitted,
                   modeSwitched>>
    /\ UNCHANGED conversationVars

\* variant: a command that resolves nothing is sent to Claude like any text
handleMessageCommandsToClaude(text) ==
    /\ permissionCallback
    /\ IF pendingCount > 0 /\ tryResolveReturns(text, pendingRequests)
       THEN tryResolveFromMessage(text)
       ELSE processWithClaude(text)
    /\ UNCHANGED deliveryVars
    /\ UNCHANGED initialized
    /\ UNCHANGED update

\* variant: a yes/no token is swallowed as a reply even when nothing is pending
dispatchConsumesTokens(text) ==
    IF pendingCount > 0 /\ tryResolveReturns(text, pendingRequests)
    THEN tryResolveFromMessage(text)
    ELSE IF \/ isYes(toUpperCase(trim(text)))
            \/ isNo(toUpperCase(trim(text)))
         THEN /\ lastOp' = [Op("message") EXCEPT !.text = text,
                                !.branch = "permission", !.returned = TRUE]
              /\ UNCHANGED <<mode, configMode, modeSwitched, queries,
                             resuming, permissionVars, conversationVars>>
         ELSE IF isCommand(text)
              THEN handleCommand(text)
              ELSE processWithClaude(text)

\* the three ways of ConversationManager.handleMessage (manager.ts 62-76)
dispatch(text) ==
    IF pendingCount > 0 /\ tryResolveReturns(text, pendingRequests)
    THEN tryResolveFromMessage(text)
    ELSE IF isCommand(text)
         THEN handleCommand(text)
         ELSE processWithClaude(text)

\* ConversationManager.handleMessage
handleMessage(text) ==
    /\ permissionCallback
    /\ dispatch(text)
    /\ UNCHANGED deliveryVars
    /\ UNCHANGED initialized
    /\ UNCHANGED update

(* ---------------------------- group addressing ------------------------- *)
\* the names that address any agent
GenericNames == { <<"a", "i">>, <<"a", "g", "e", "n", "t">> }

\* s begins with the word w, in any case
StartsWithWord(s, w) ==
    /\ Len(s) >= Len(w)
    /\ toLowerCase(SubSeq(s, 1, Len(w))) = toLowerCase(w)
    /\ Len(s) = Len(w) \/ s[Len(w) + 1] \in Whitespace

\* what follows the word w at the start of s
AfterWord(s, w) == trimStart(SubSeq(s, Len(w) + 1, Len(s)))

\* the name a text that begins with @ addresses, <<>> when it is none of the
\* agent's
AddressedName(rest, name) ==
    IF name # <<>> /\ StartsWithWord(rest, name) THEN name
    ELSE IF \E g \in GenericNames : StartsWithWord(rest, g)
         THEN CHOOSE g \in GenericNames : StartsWithWord(rest, g)
         ELSE <<>>

Ask == <<"/", "a", "s", "k">>

\* a group message targets the agent: @name, @ai, @agent or /ask
isTargeted(text, name) ==
    LET t == trim(text) IN
    \/ t # <<>> /\ Head(t) = "@" /\ AddressedName(Tail(t), name) # <<>>
    \/ StartsWithWord(t, Ask)

\* the text without its targeting prefix (untargeted: as it is)
stripTargeting(text, name) ==
    LET t == trim(text) IN
    IF t # <<>> /\ Head(t) = "@" /\ AddressedName(Tail(t), name) # <<>>
    THEN AfterWord(Tail(t), AddressedName(Tail(t), name))
    ELSE IF StartsWithWord(t, Ask)
         THEN LET rest == AfterWord(t, Ask) IN
              IF name # <<>> /\ StartsWithWord(rest, name)
              THEN AfterWord(rest, name)
              ELSE rest
         ELSE t

\* variant: a bare Y or N is handled although it targets nobody
onGroupMessageRepliesPass(text) ==
    /\ permissionCallback
    /\ heard' = text
    /\ UNCHANGED <<currentSenderJid, typing, inbox, replying>>
    /\ IF \/ isTargeted(text, agentName)
          \/ isYes(toUpperCase(trim(text)))
          \/ isNo(toUpperCase(trim(text)))
       THEN dispatch(stripTargeting(text, agentName))
       ELSE /\ lastOp' = [Op("message") EXCEPT !.text = text,
                                               !.branch = "ignored"]
            /\ UNCHANGED <<mode, configMode, modeSwitched, queries, resuming,
                           permissionVars, conversationVars>>
    /\ UNCHANGED initialized
    /\ UNCHANGED update

\* a message of the group: an untargeted one is dropped, a targeted one is
\* handled without its prefix
onGroupMessage(text) ==
    /\ permissionCallback
    /\ heard' = text
    /\ UNCHANGED <<currentSenderJid, typing, inbox, replying>>
    /\ IF isTargeted(text, agentName)
       THEN dispatch(stripTargeting(text, agentName))
       ELSE /\ lastOp' = [Op("message") EXCEPT !.text = text,
                                               !.branch = "ignored"]
            /\ UNCHANGED <<mode, configMode, modeSwitched, queries, resuming,
                           permissionVars, conversationVars>>
    /\ UNCHANGED initialized
    /\ UNCHANGED update

(* ------------------------------- index.ts ------------------------------ *)
\* the whitelisted contacts
Contacts == {"a", "b"}

\* number of messages index.ts receives
MaxMessages == 2

\* the messages received so far
received == Len(inbox)

\* the user turn of received message m
UserTurnOf(m) == [role |-> "user", stamp |-> m.stamp, from |-> m.from]

RemoveAt(s, i) == SubSeq(s, 1, i - 1) \o SubSeq(s, i + 1, Len(s))

\* handleMessage of index.ts (132-150) for a message event (90-92), with
\* ConversationManager.handleMessage (manager.ts 56-77) up to its first
\* await: a permission reply returns at once and the sender is cleared; a
\* command is handled and its reply awaited; any other text awaits
\* sendTyping (manager.ts 661)
onMessage(from, text) ==
    /\ permissionCallback
    /\ received < MaxMessages
    /\ inbox' = Append(inbox, from)
    /\ UNCHANGED heard
    /\ IF pendingCount > 0 /\ tryResolveReturns(text, pendingRequests)
       THEN /\ tryResolveFromMessage(text)
            /\ currentSenderJid' = "null"
            /\ UNCHANGED <<typing, replying>>
       ELSE IF isCommand(text)
            THEN /\ handleCommand(text)
                 /\ currentSenderJid' = from
                 /\ replying' = Append(replying, "command")
                 /\ UNCHANGED typing
            ELSE /\ typing' = Append(typing, [stamp |-> received + 1,
                                              from |-> from, text |-> text])
                 /\ currentSenderJid' = from
                 /\ lastOp' = [Op("message") EXCEPT
                                  !.text = text, !.branch = "conversation",
                                  !.id = received + 1, !.outcome = "typing"]
                 /\ UNCHANGED <<mode, configMode, modeSwitched, queries,
                                resuming, permissionVars, conversationVars,
                                replying>>
    /\ UNCHANGED initialized
    /\ UNCHANGED update

\* ConversationHistory.getHistory: the turns of the log, oldest first
getHistory(log) == log

\* the prompt SDKBackend.query makes of the history it is given and of the
\* message (sdk-backend.ts 143-145), as the turns and the message it holds
fullPrompt(conversationHistory, prompt) ==
    IF Len(conversationHistory) # 0
    THEN conversationHistory \o <<prompt>>
    ELSE <<prompt>>

\* sendTyping of the i-th waiting message resolves: processWithClaude goes on
\* (manager.ts 664-669) to append the user turn and to query the backend with
\* the history; without the executable the error reply follows at once
sendTypingDone(i) ==
    /\ i \in 1..Len(typing)
    /\ Len(history) < MaxTurns
    /\ LET m == typing[i] IN
       /\ typing' = RemoveAt(typing, i)
       /\ history' = Append(history, UserTurnOf(m))
       /\ queryAs(m.stamp)
       /\ replying' = IF claudeCodePath THEN replying
                      ELSE Append(replying, "response")
       /\ lastOp' = [Op("typing done") EXCEPT
                        !.text = m.text, !.id = m.stamp,
                        !.given =
                            fullPrompt(
                                getHistory(Append(history, UserTurnOf(m))),
                                UserTurnOf(m)),
                        !.outcome = IF claudeCodePath THEN "started"
                                    ELSE "noExecutable"]
    /\ UNCHANGED <<mode, configMode, modeSwitched, permissionVars,
                   currentSessionId, settingVars, claudeCodePath, phase,
                   currentSenderJid, inbox, heard>>
    /\ UNCHANGED initialized
    /\ UNCHANGED update

\* sendTyping of the i-th waiting message rejects: the await (manager.ts 661)
\* stands before the try, and neither handleMessage has a catch, so the
\* promise of the event listener (index.ts 75) rejects; line 149 is not
\* reached
sendTypingFails(i) ==
    /\ i \in 1..Len(typing)
    /\ typing' = RemoveAt(typing, i)
    /\ lastOp' = [Op("typing failed") EXCEPT
                     !.text = typing[i].text, !.id = typing[i].stamp,
                     !.outcome = "rejected"]
    /\ UNCHANGED <<mode, configMode, modeSwitched, queries, resuming,
                   permissionVars, conversationVars, currentSenderJid, inbox,
                   replying, heard>>
    /\ UNCHANGED initialized
    /\ UNCHANGED update

\* the end of query q made by processWithClaude: the reply (manager.ts 674,
\* 685) is awaited inside the try
queryReturns(q, outcome) ==
    /\ queryEnds(q, outcome)
    /\ replying' = Append(replying, "response")
    /\ UNCHANGED <<currentSenderJid, typing, inbox, heard>>
    /\ UNCHANGED update

\* the i-th awaited sendResponse resolves: the handleMessage calls return and
\* index.ts clears the sender (149)
sendResponseDone(i) ==
    /\ i \in 1..Len(replying)
    /\ replying' = RemoveAt(replying, i)
    /\ currentSenderJid' = "null"
    /\ lastOp' = [Op("reply sent") EXCEPT !.branch = replying[i]]
    /\ UNCHANGED <<mode, configMode, modeSwitched, queries, resuming,
                   permissionVars, conversationVars, typing, inbox, heard>>
    /\ UNCHANGED initialized
    /\ UNCHANGED update

\* the i-th awaited sendResponse rejects: inside the try of processWithClaude
\* the catch (manager.ts 686-690) sends the error text; in the catch itself
\* and in handleCommand nothing catches it
sendResponseFails(i) ==
    /\ i \in 1..Len(replying)
    /\ replying' = IF replying[i] = "response"
                   THEN [replying EXCEPT ![i] = "caught"]
                   ELSE RemoveAt(replying, i)
    /\ lastOp' = [Op("reply failed") EXCEPT
                     !.branch = replying[i],
                     !.outcome = IF replying[i] = "response" THEN "caught"
                                 ELSE "rejected"]
    /\ UNCHANGED <<mode, configMode, modeSwitched, queries, resuming,
                   permissionVars, conversationVars, currentSenderJid, typing,
                   inbox, heard>>
    /\ UNCHANGED initialized
    /\ UNCHANGED update

(* ----------------------------- cli/update.ts --------------------------- *)
DigitValue(c) ==
    CASE c = "0" -> 0 [] c = "1" -> 1 [] c = "2" -> 2 [] c = "3" -> 3
      [] c = "4" -> 4 [] c = "5" -> 5 [] c = "6" -> 6 [] c = "7" -> 7
      [] c = "8" -> 8 [] c = "9" -> 9 [] OTHER -> -1

\* "parseInt(p, 10) || 0" for a text without sign and leading blanks: the
\* number its leading digits spell, 0 when it begins with no digit
RECURSIVE leadingDigits(_, _)
leadingDigits(p, acc) ==
    IF p = <<>> \/ DigitValue(Head(p)) < 0
    THEN acc
    ELSE leadingDigits(Tail(p), acc * 10 + DigitValue(Head(p)))

parseIntOrZero(p) == leadingDigits(p, 0)

\* split('.')
RECURSIVE splitDot(_)
splitDot(s) ==
    IF \A i \in 1..Len(s) : s[i] # "."
    THEN <<s>>
    ELSE LET k == CHOOSE i \in 1..Len(s) :
                     s[i] = "." /\ \A h \in 1..(i - 1) : s[h] # "."
         IN <<SubSeq(s, 1, k - 1)>> \o splitDot(SubSeq(s, k + 1, Len(s)))

\* replace(/^v/, '')
stripV(version) ==
    IF version # <<>> /\ Head(version) = "v" THEN Tail(version) ELSE version

\* the numbers of a version (update.ts 51-55)
versionParts(version) ==
    LET parts == splitDot(stripV(version)) IN
    [i \in 1..Len(parts) |-> parseIntOrZero(parts[i])]

\* "parts[i] || 0"
partAt(parts, i) == IF i <= Len(parts) THEN parts[i] ELSE 0

\* the loop of compareVersions (update.ts 57-63) from index i on
RECURSIVE compareFrom(_, _, _)
compareFrom(currentParts, latestParts, i) ==
    IF i > Len(currentParts) /\ i > Len(latestParts) THEN 0
    ELSE IF partAt(currentParts, i) < partAt(latestParts, i) THEN -1
    ELSE IF partAt(currentParts, i) > partAt(latestParts, i) THEN 1
    ELSE compareFrom(currentParts, latestParts, i + 1)

compareVersions(current, latest) ==
    compareFrom(versionParts(current), versionParts(latest), 1)

DevVersion == <<"0", ".", "0", ".", "0", "-", "d", "e", "v">>

\* the dev version counts as 0.0.0 (update.ts 131)
comparableVersion(currentVersion) ==
    IF currentVersion = DevVersion
    THEN <<"0", ".", "0", ".", "0">>
    ELSE currentVersion

\* the versions a build and a release tag can carry
Versions ==
    { DevVersion, <<"1", ".", "2", ".", "0">>, <<"v", "1", ".", "2", ".", "0">>,
      <<"1", ".", "2">>, <<"1", ".", "1", "0", ".", "0">>,
      <<"v", "1", ".", "9", ".", "3">>, <<"0", ".", "0", ".", "0">>,
      <<"v", "2">>, <<"1", ".", "2", ".", "0", "-", "r", "c", "1">> }

\* the exit of runUpdate with a code; the files stay as they are
exitUpdate(code) == [update EXCEPT !.pc = code]

\* runUpdate up to the download (update.ts 126-172): the release is fetched,
\* the versions are compared and the asset of the platform is looked up; a
\* backup file of an earlier run may lie beside the executable
runUpdate(currentVersion, latestVersion, fetched, found, stale) ==
    /\ update.pc = "idle"
    /\ LET comparison ==
               compareVersions(comparableVersion(currentVersion), latestVersion)
           start == [update EXCEPT !.current = currentVersion,
                                   !.latest = latestVersion,
                                   !.backup = IF stale THEN "stale" ELSE "none"]
       IN
       /\ update' = IF ~fetched THEN [start EXCEPT !.pc = "exit1"]
                     ELSE IF comparison >= 0 THEN [start EXCEPT !.pc = "exit0"]
                     ELSE IF ~found THEN [start EXCEPT !.pc = "exit1"]
                     ELSE [start EXCEPT !.pc = "download"]
       /\ lastOp' = [Op("runUpdate") EXCEPT
                        !.given = <<currentVersion, latestVersion>>,
                        !.outcome = IF ~fetched THEN "fetchFailed"
                                    ELSE IF comparison >= 0 THEN "upToDate"
                                    ELSE IF ~found THEN "noAsset"
                                    ELSE "newVersion"]
    /\ UNCHANGED agentVars

\* downloadBinary to <execPath>.new (update.ts 74-84, 174)
downloadBinary(outcome) ==
    /\ update.pc = "download"
    /\ update' = IF outcome = "ok"
                 THEN [update EXCEPT !.temp = "new", !.pc = "chmod"]
                 ELSE IF outcome = "writeFails"
                 THEN [update EXCEPT !.temp = "partial", !.pc = "exit1"]
                 ELSE exitUpdate("exit1")
    /\ lastOp' = [Op("downloadBinary") EXCEPT !.outcome = outcome]
    /\ UNCHANGED agentVars

\* chmodSync of the downloaded file (update.ts 178-180)
chmodSync(ok) ==
    /\ update.pc = "chmod"
    /\ update' = IF ok THEN [update EXCEPT !.pc = "backup"]
                 ELSE exitUpdate("exit1")
    /\ lastOp' = [Op("chmodSync") EXCEPT
                     !.outcome = IF ok THEN "ok" ELSE "failed"]
    /\ UNCHANGED agentVars

\* the backup of the running executable (update.ts 201-208): an old backup is
\* unlinked, then the executable is renamed to <execPath>.backup
backupExecutable(outcome) ==
    /\ update.pc = "backup"
    /\ outcome = "unlinkFails" => update.backup # "none"
    /\ update' = IF outcome = "unlinkFails" THEN exitUpdate("exit1")
                 ELSE IF outcome = "renameFails"
                 THEN [update EXCEPT !.backup = "none", !.pc = "exit1"]
                 ELSE [update EXCEPT !.backup = "old", !.exec = "none",
                                     !.pc = "install"]
    /\ lastOp' = [Op("backup") EXCEPT !.outcome = outcome]
    /\ UNCHANGED agentVars

\* the new file is renamed to the executable path (update.ts 210-212)
installExecutable(ok) ==
    /\ update.pc = "install"
    /\ update' = IF ok
                 THEN [update EXCEPT !.exec = "new", !.temp = "none",
                                     !.pc = "cleanup"]
                 ELSE exitUpdate("exit1")
    /\ lastOp' = [Op("install") EXCEPT
                     !.outcome = IF ok THEN "ok" ELSE "failed"]
    /\ UNCHANGED agentVars

\* the backup is removed (update.ts 214-221)
cleanupBackup(ok) ==
    /\ update.pc = "cleanup"
    /\ update' = IF ok THEN [update EXCEPT !.backup = "none", !.pc = "exit0"]
                 ELSE exitUpdate("exit1")
    /\ lastOp' = [Op("cleanup") EXCEPT
                     !.outcome = IF ok THEN "ok" ELSE "failed"]
    /\ UNCHANGED agentVars

(* ----------------------------- specification --------------------------- *)
\* a start with no session to resume, no prompt and no CLAUDE.md sources
PlainStart ==
    /\ currentSessionId = None
    /\ ~forkNextQuery
    /\ systemPrompt = None
    /\ systemPromptAppend = None
    /\ settingSources = <<>>
    /\ claudeCodePath

\* mode commands, with one conversation message, one yes and one no
PolicyTexts ==
    CommandTexts \cup { <<"m", "a", "y", "b", "e">>, <<"y">>, <<"N">> }

\* the mode policy: every mode, every tool, mode commands
Next ==
    \/ ConstructManager
    \/ BackendQuery
    \/ \E text \in PolicyTexts : handleMessage(text)
    \/ \E q \in 1..MaxQueries, toolName \in Tools, delivered \in BOOLEAN :
          handleToolPermission(q, toolName, delivered)
    \/ \E id \in 1..MaxRequests : TimeoutFires(id)
    \/ \E q \in 1..MaxQueries, outcome \in {"success", "error"} :
          QueryComplete(q, outcome)

\* the plain start in every mode
PlainInit == Init /\ PlainStart

Spec == PlainInit /\ [][Next]_vars

\* replies, near-replies and an unknown command
ArbiterTexts == ReplyTexts \cup OtherTexts \cup { <<"/", "n", "o">> }

\* the permission arbiter: default mode, every reply text
ArbiterNext ==
    \/ ConstructManager
    \/ BackendQuery
    \/ \E text \in ArbiterTexts : handleMessage(text)
    \/ \E q \in 1..MaxQueries, toolName \in {"Bash", "Read"},
          delivered \in BOOLEAN :
          handleToolPermission(q, toolName, delivered)
    \/ \E id \in 1..MaxRequests, allowed \in BOOLEAN :
          resolvePermission(id, allowed)
    \/ \E id \in 1..MaxRequests : TimeoutFires(id)
    \/ \E q \in 1..MaxQueries, outcome \in {"success", "error"} :
          QueryComplete(q, outcome)
    \/ dispose

\* the plain start in default mode
DefaultInit == Init /\ PlainStart /\ mode = "default"

ArbiterSpec == DefaultInit /\ [][ArbiterNext]_vars

\* one yes, one no and one conversation message
FairTexts == { <<"y">>, <<"N">>, <<"m", "a", "y", "b", "e">> }

FairNext ==
    \/ ConstructManager
    \/ \E text \in FairTexts : handleMessage(text)
    \/ \E q \in 1..MaxQueries, delivered \in BOOLEAN :
          handleToolPermission(q, "Bash", delivered)
    \/ \E id \in 1..MaxRequests : TimeoutFires(id)
    \/ \E q \in 1..MaxQueries, outcome \in {"success", "error"} :
          QueryComplete(q, outcome)
    \/ dispose

\* the event loop runs every timer that is due and every continuation
FairSpec ==
    /\ DefaultInit
    /\ [][FairNext]_vars
    /\ \A id \in 1..MaxRequests : WF_vars(TimeoutFires(id))

\* the session, directory, model and prompt commands, and a conversation
\* message
SessionTexts ==
    {
      <<"/", "c", "l", "e", "a", "r">>,
      <<"/", "s", "e", "s", "s", "i", "o", "n">>,
      <<"/", "s", "e", "s", "s", "i", "o", "n", " ", "c", "l", "e", "a", "r">>,
      <<"/", "s", "e", "s", "s", "i", "o", "n", " ", "s", "2">>,
      <<"/", "f", "o", "r", "k">>, <<"/", "c", "d">>,
      <<"/", "c", "d", " ", "/", "d">>,
      <<"/", "c", "d", " ", "/", "d", "/">>,
      <<"/", "c", "d", " ", "/", "x">>, <<"/", "c", "d", " ", "/", "f">>,
      <<"/", "c", "d", " ", "/", "z">>,
      <<"/", "m", "o", "d", "e", "l", " ", "o", "p", "u", "s">>,
      <<"/", "M", "o", "d", "e", "l", " ", "B", "o", "g", "u", "s">>,
      <<"/", "p", "r", "o", "m", "p", "t">>,
      <<"/", "p", "r", "o", "m", "p", "t", " ", "p", "1">>,
      <<"/", "p", "r", "o", "m", "p", "t", " ", "C", "l", "e", "a", "r">>,
      <<"/", "p", "r", "o", "m", "p", "t", "a", "p", "p", "e", "n", "d", " ", "p", "2">>,
      <<"/", "a", "p", "p", "e", "n", "d", "p", "r", "o", "m", "p", "t", " ", "r", "e", "s", "e", "t">>,
      <<"h", "i">> }

\* sessions, history and the commands that end them; no tool is called
SessionNext ==
    \/ ConstructManager
    \/ \E text \in SessionTexts : handleMessage(text)
    \/ \E q \in 1..MaxQueries, outcome \in Outcomes : QueryComplete(q, outcome)

\* every start without CLAUDE.md sources, in bypassPermissions mode
SessionInit == Init /\ mode = "bypassPermissions" /\ settingSources = <<>>

SessionSpec == SessionInit /\ [][SessionNext]_vars

\* a conversation message and the commands that touch the session
QueryTexts ==
    { <<"h", "i">>, <<"/", "c", "l", "e", "a", "r">>,
      <<"/", "s", "e", "s", "s", "i", "o", "n", " ", "c", "l", "e", "a", "r">>,
      <<"/", "s", "e", "s", "s", "i", "o", "n", " ", "s", "2">>,
      <<"/", "f", "o", "r", "k">>, <<"/", "c", "d", " ", "/", "d">> }

\* queries that report their session, and fail or succeed, between commands
QueryNext ==
    \/ ConstructManager
    \/ \E text \in QueryTexts : handleMessage(text)
    \/ \E q \in 1..MaxQueries, sid \in SessionIds : systemInitMessage(q, sid)
    \/ \E q \in 1..MaxQueries, outcome \in Outcomes : QueryComplete(q, outcome)

QuerySpec == SessionInit /\ [][QueryNext]_vars

\* mode commands and their aliases, rejected inputs, /fork, one yes, one no
\* and a conversation message
FrameTexts ==
    { <<"/", "p", "l", "a", "n">>,
      <<"/", "R", "e", "a", "d", "O", "n", "l", "y">>,
      <<"/", "d", "e", "f", "a", "u", "l", "t">>,
      <<"/", "y", "o", "l", "o">>,
      <<"/", "a", "c", "c", "e", "p", "t", "-", "e", "d", "i", "t", "s">>,
      <<"/", "d", "o", "n", "t", "a", "s", "k">>,
      <<"/", "f", "o", "r", "k">>,
      <<"/", "M", "o", "d", "e", "l", " ", "B", "o", "g", "u", "s">>,
      <<"/", "f", "r", "o", "b", " ", "x">>,
      <<"/", "n", "a", "m", "e">>,
      <<"/", "c", "l", "a", "u", "d", "e", "m", "d", " ", "u", "s", "e", "r", ",", "b", "a", "d">>,
      <<"/", "c", "o", "n", "f", "i", "g", " ", "f", "r", "o", "b">>,
      <<"y">>, <<"N">>, <<"h", "i">> }

\* commands while a query is asking for permissions
FrameNext ==
    \/ ConstructManager
    \/ \E text \in FrameTexts : handleMessage(text)
    \/ \E q \in 1..MaxQueries, delivered \in BOOLEAN :
          handleToolPermission(q, "Bash", delivered)
    \/ \E q \in 1..MaxQueries, outcome \in {"success", "error"} :
          QueryComplete(q, outcome)

\* a start in default mode with a system prompt and CLAUDE.md sources, the
\* fork flag off, with or without a session to resume
FrameStart ==
    /\ mode = "default"
    /\ claudeCodePath
    /\ currentSessionId \in { None, <<"s", "1">> }
    /\ ~forkNextQuery
    /\ systemPrompt = StartPrompt
    /\ systemPromptAppend = None
    /\ settingSources # <<>>

FrameInit == Init /\ FrameStart

FrameSpec == FrameInit /\ [][FrameNext]_vars

\* the commands that show, change and save the configuration
ConfigTexts ==
    { <<"/", "c", "o", "n", "f", "i", "g">>, <<"/", "c", "o", "n", "f", "i", "g", " ", "S", "a", "v", "e">>,
      <<"/", "c", "o", "n", "f", "i", "g", " ", "p", "a", "t", "h">>,
      <<"/", "c", "o", "n", "f", "i", "g", " ", "f", "r", "o", "b">>,
      <<"/", "p", "l", "a", "n">>, <<"/", "c", "d", " ", "/", "d">>,
      <<"/", "m", "o", "d", "e", "l", " ", "o", "p", "u", "s">>,
      <<"/", "n", "a", "m", "e", " ", "B", "o", "b">>,
      <<"/", "c", "l", "a", "u", "d", "e", "m", "d", " ", "p", "r", "o", "j", "e", "c", "t", ",", " ", "l", "o", "c", "a", "l">>,
      <<"/", "c", "l", "a", "u", "d", "e", "m", "d", " ", "n", "o", "n", "e">>,
      <<"/", "p", "r", "o", "m", "p", "t", " ", "p", "1">>,
      <<"/", "p", "r", "o", "m", "p", "t", "a", "p", "p", "e", "n", "d", " ", "p", "2">> }

\* the running configuration and its file; no query is made
ConfigNext ==
    \/ ConstructManager
    \/ \E text \in ConfigTexts : handleMessage(text)

\* every start in default mode
ConfigInit == Init /\ mode = "default"

ConfigSpec == ConfigInit /\ [][ConfigNext]_vars

\* conversation messages, a command and a permission reply
DeliveryTexts == { <<"h", "i">>, <<"/", "c", "l", "e", "a", "r">>, <<"y">> }

\* the delivery of index.ts: two contacts, messages handled side by side
DeliveryNext ==
    \/ ConstructManager
    \/ \E from \in Contacts, text \in DeliveryTexts : onMessage(from, text)
    \/ \E i \in 1..MaxMessages : sendTypingDone(i)
    \/ \E i \in 1..MaxMessages : sendTypingFails(i)
    \/ \E q \in 1..MaxMessages, delivered \in BOOLEAN :
          handleToolPermission(q, "Bash", delivered)
    \/ \E q \in 1..MaxMessages, outcome \in {"success", "error"} :
          queryReturns(q, outcome)
    \/ \E i \in 1..MaxMessages : sendResponseDone(i)
    \/ \E i \in 1..MaxMessages : sendResponseFails(i)

DeliverySpec == DefaultInit /\ [][DeliveryNext]_vars

\* group messages: bare and targeted replies, conversation and commands, by
\* the agent's name, by the generic names and by /ask
GroupTexts ==
    { <<"y">>, <<"N">>, <<"h", "i">>, <<"/", "c", "l", "e", "a", "r">>,
      <<"@", "a", "i", " ", "Y">>, <<"@", "A", "g", "e", "n", "t", " ", "n">>,
      <<"@", "B", "o", "t", " ", "y", "e", "s">>,
      <<"@", "b", "o", "b", " ", "y">>,
      <<"@", "a", "i", " ", "h", "i">>, <<"/", "a", "s", "k", " ", "h", "i">>,
      <<"/", "a", "s", "k", " ", "b", "o", "t", " ", "h", "i">>,
      <<"@", "a", "i", "d", " ", "y">>,
      <<"@", "a", "i", " ", "/", "c", "l", "e", "a", "r">> }

\* a group conversation whose queries ask for permissions
GroupNext ==
    \/ ConstructManager
    \/ \E text \in GroupTexts : onGroupMessage(text)
    \/ \E q \in 1..MaxQueries, delivered \in BOOLEAN :
          handleToolPermission(q, "Bash", delivered)
    \/ \E q \in 1..MaxQueries, outcome \in {"success", "error"} :
          QueryComplete(q, outcome)

GroupSpec == DefaultInit /\ [][GroupNext]_vars

\* the self-update on Linux or macOS, each of its steps failing or not
UpdateNext ==
    \/ \E currentVersion \in Versions, latestVersion \in Versions,
          fetched \in BOOLEAN, found \in BOOLEAN, stale \in BOOLEAN :
          runUpdate(currentVersion, latestVersion, fetched, found, stale)
    \/ \E outcome \in {"ok", "fetchFails", "writeFails"} :
          downloadBinary(outcome)
    \/ \E ok \in BOOLEAN : chmodSync(ok)
    \/ \E outcome \in {"ok", "unlinkFails", "renameFails"} :
          backupExecutable(outcome)
    \/ \E ok \in BOOLEAN : installExecutable(ok)
    \/ \E ok \in BOOLEAN : cleanupBackup(ok)

UpdateSpec == DefaultInit /\ [][UpdateNext]_vars

\* the process runs until process.exit
Alive == phase # "exited"

\* shutdown while a query is asking for permissions
ShutdownNext ==
    \/ ConstructManager
    \/ \E text \in FairTexts : Alive /\ handleMessage(text)
    \/ \E q \in 1..MaxQueries, delivered \in BOOLEAN :
          Alive /\ handleToolPermission(q, "Bash", delivered)
    \/ \E id \in 1..MaxRequests : Alive /\ TimeoutFires(id)
    \/ \E q \in 1..MaxQueries, outcome \in {"success", "error"} :
          Alive /\ QueryComplete(q, outcome)
    \/ dispose
    \/ backendStop
    \/ disconnectAndExit

ShutdownSpec == DefaultInit /\ [][ShutdownNext]_vars

TypeOK ==
    /\ mode \in Modes
    /\ configMode \in Modes
    /\ permissionCallback \in BOOLEAN
    /\ queries \subseteq 1..MaxQueries \cup 1..MaxMessages
    /\ resuming \subseteq queries
    /\ initialized \subseteq queries
    /\ emitted \in 0..MaxRequests
    /\ modeSwitched \in BOOLEAN
    /\ Len(requests) <= MaxRequests
    /\ \A i \in 1..Len(pendingRequests) : pendingRequests[i] \in Ids
    /\ Len(history) <= MaxTurns
    /\ forkNextQuery \in BOOLEAN
    /\ phase \in {"running", "disposed", "stopped", "exited"}
    /\ update.pc \in {"idle", "download", "chmod", "backup", "install",
                       "cleanup", "exit0", "exit1"}
    /\ update.exec \in {"old", "new", "none"}
    /\ currentSenderJid \in Contacts \cup {"null"}
    /\ Len(inbox) <= MaxMessages
    /\ \A i \in 1..Len(inbox) : inbox[i] \in Contacts
    /\ \A i \in 1..Len(typing) : typing[i].stamp \in 1..Len(inbox)
    /\ \A i \in 1..Len(replying) :
          replying[i] \in {"command", "response", "caught"}

(* -------------------------------- claims -------------------------------- *)
\* C1 (as stated): with the permission callback registered, every tool
\* permission decision equals the table: bypassPermissions allows everything;
\* plan and dontAsk deny destructive tools; acceptEdits allows Write, Edit and
\* NotebookEdit and asks for Bash and TodoWrite; default asks for destructive
\* tools; every mode allows non-destructive tools.
C1_DecisionMatchesTable ==
    [][(lastOp'.op = "toolPermission" /\ permissionCallback) =>
          LET t == lastOp'.tool
              editClass == {"Write", "Edit", "NotebookEdit"}
              otherDestructive == {"Bash", "TodoWrite"}
              table ==
                  CASE mode = "bypassPermissions" -> "allow"
                    [] mode \in {"plan", "dontAsk"} ->
                          IF t \in editClass \cup otherDestructive
                          THEN "deny" ELSE "allow"
                    [] mode = "acceptEdits" ->
                          IF t \in otherDestructive THEN "ask" ELSE "allow"
                    [] mode = "default" ->
                          IF t \in editClass \cup otherDestructive
                          THEN "ask" ELSE "allow"
          IN lastOp'.behavior = table]_vars

\* C2 (as stated): in acceptEdits mode a call of Bash or TodoWrite is not
\* allowed at once: a permission request is registered for it.
C2_AcceptEditsAsksForShell ==
    [][(lastOp'.op = "toolPermission" /\ permissionCallback
           /\ mode = "acceptEdits" /\ lastOp'.tool \in {"Bash", "TodoWrite"}) =>
          /\ lastOp'.behavior # "allow"
          /\ Len(requests') = Len(requests) + 1]_vars

\* C3: a destructive tool called in default mode is never allowed at once; a
\* request is created only by such a call; the call ends in allow only by
\* resolvePermission(id, true) or a yes reply, and a deny reply,
\* resolvePermission(id, false), the timeout, cancelAll and a missing
\* permission callback all end it in deny.
C3_DefaultAllowsOnlyOnApproval ==
    [][LET destructive == {"Write", "Edit", "NotebookEdit", "Bash", "TodoWrite"}
           yes == { <<"y">>, <<" ", "Y", "e", "s", "\n">>,
                    <<"a", "l", "l", "o", "w">> }
           id == lastOp'.id
       IN
       /\ Len(requests') > Len(requests) =>
             /\ lastOp'.op = "toolPermission"
             /\ mode = "default"
             /\ lastOp'.tool \in destructive
             /\ requests'[Len(requests')].result = "pending"
       /\ (lastOp'.op = "toolPermission" /\ mode = "default"
              /\ lastOp'.tool \in destructive) =>
             /\ lastOp'.behavior # "allow"
             /\ ~permissionCallback => lastOp'.behavior = "deny"
       /\ \A r \in 1..Len(requests) :
             requests'[r].result # requests[r].result =>
                /\ requests[r].result = "pending"
                /\ requests'[r].result = "allow" =>
                      \/ /\ lastOp'.op = "resolvePermission"
                         /\ id = r
                         /\ lastOp'.allowed
                      \/ /\ lastOp'.op = "message"
                         /\ id = r
                         /\ lastOp'.text \in yes
       /\ (lastOp'.op = "timeout" /\ IsPending(id)) =>
             requests'[id].result = "deny"
       /\ (lastOp'.op = "resolvePermission" /\ IsPending(id)
              /\ ~lastOp'.allowed) => requests'[id].result = "deny"
       /\ (lastOp'.op = "message" /\ lastOp'.branch = "permission"
              /\ lastOp'.text \notin yes) => requests'[id].result = "deny"
       /\ lastOp'.op = "dispose" =>
             \A r \in 1..Len(requests) :
                IsPending(r) => requests'[r].result = "deny"]_vars

C3_Witness ==
    \E a, d \in Ids :
       /\ requests[a].result = "allow"
       /\ requests[d].result = "deny"
       /\ requests[d].timer = "fired"

\* C4: a tool call decided allow or deny registers no request and emits no
\* permission-request event; the registry and the event count change in a
\* tool call only when the decision is ask, and then by exactly one request.
C4_RequestOnlyOnAsk ==
    [][/\ lastOp'.op = "toolPermission" =>
             /\ lastOp'.behavior \in {"allow", "deny"} =>
                   /\ requests' = requests
                   /\ pendingRequests' = pendingRequests
                   /\ emitted' = emitted
             /\ (requests' # requests \/ pendingRequests' # pendingRequests
                    \/ emitted' # emitted) =>
                   /\ lastOp'.behavior = "ask"
                   /\ Len(requests') = Len(requests) + 1
                   /\ Len(pendingRequests') = Len(pendingRequests) + 1
                   /\ emitted' = emitted + 1
       /\ emitted' # emitted => lastOp'.op = "toolPermission"]_vars

C4_Witness ==
    /\ lastOp.op = "toolPermission"
    /\ lastOp.behavior = "deny"
    /\ pendingCount > 0

\* C5: the mode of the orchestrator's config and the mode the backend decides
\* with are equal in every state; /bypass and /plan set it; a tool call made
\* while the config shows bypassPermissions is allowed with no request, and a
\* destructive tool call made while it shows plan is denied with no request.
C5_DecisionsFollowModeSwitch ==
    /\ [](mode = configMode)
    /\ [][LET destructive == {"Write", "Edit", "NotebookEdit", "Bash",
                               "TodoWrite"}
          IN
          /\ (lastOp'.op = "message" /\ lastOp'.branch = "command"
                /\ lastOp'.text = <<" ", "/", "B", "y", "p", "a", "s", "s">>) =>
                configMode' = "bypassPermissions"
          /\ (lastOp'.op = "message" /\ lastOp'.branch = "command"
                /\ lastOp'.text = <<"/", "p", "l", "a", "n">>) =>
                configMode' = "plan"
          /\ (lastOp'.op = "toolPermission"
                /\ configMode = "bypassPermissions") =>
                /\ lastOp'.behavior = "allow"
                /\ emitted' = emitted
                /\ pendingRequests' = pendingRequests
          /\ (lastOp'.op = "toolPermission" /\ configMode = "plan"
                /\ lastOp'.tool \in destructive) =>
                /\ lastOp'.behavior = "deny"
                /\ emitted' = emitted
                /\ pendingRequests' = pendingRequests]_vars

C5_Witness ==
    /\ modeSwitched
    /\ configMode = "plan"
    /\ lastOp.op = "toolPermission"
    /\ lastOp.tool = "Bash"
    /\ lastOp.behavior = "deny"

\* C6: the promise of a request is resolved at most once, a request is in the
\* registry exactly while it is unresolved, a resolved request keeps its
\* value, and resolvePermission, the timeout and cancelAll on a request that
\* is no longer pending change neither its value nor the registry.
C6_ResolvedExactlyOnce ==
    /\ [](\A r \in Ids :
            /\ requests[r].resolveCalls <= 1
            /\ requests[r].resolveCalls = 1 <=> requests[r].settled # "none"
            /\ IsPending(r) <=> requests[r].settled = "none")
    /\ [][LET id == lastOp'.id IN
          /\ \A r \in Ids :
                requests[r].settled # "none" =>
                   /\ requests'[r].settled = requests[r].settled
                   /\ requests'[r].result = requests[r].result
                   /\ requests'[r].resolveCalls = requests[r].resolveCalls
          /\ (lastOp'.op = "resolvePermission" /\ ~IsPending(id)) =>
                /\ ~lastOp'.returned
                /\ requests' = requests
                /\ pendingRequests' = pendingRequests
          /\ (lastOp'.op = "timeout" /\ ~IsPending(id)) =>
                /\ requests' = [requests EXCEPT ![id].timer = "fired"]
                /\ pendingRequests' = pendingRequests]_vars

C6_Witness ==
    /\ lastOp.op = "timeout"
    /\ ~lastOp.returned
    /\ requests[lastOp.id].settled = "true"
    /\ requests[lastOp.id].resolveCalls = 1

\* C7: the timeout of a pending request resolves it to false, removes it from
\* the registry and lowers pendingCount by one, leaving the other requests
\* alone; the timeout of a request that is no longer pending changes neither
\* the registry nor any request's value.
C7_TimeoutDenies ==
    [][lastOp'.op = "timeout" =>
          LET id == lastOp'.id IN
          IF IsPending(id)
          THEN /\ requests'[id].settled = "false"
               /\ requests'[id].result = "deny"
               /\ \A i \in 1..Len(pendingRequests') : pendingRequests'[i] # id
               /\ Len(pendingRequests') = Len(pendingRequests) - 1
               /\ \A r \in Ids \ {id} : requests'[r] = requests[r]
          ELSE /\ pendingRequests' = pendingRequests
               /\ \A r \in Ids :
                     /\ requests'[r].settled = requests[r].settled
                     /\ requests'[r].result = requests[r].result]_vars

C7_Witness ==
    /\ lastOp.op = "timeout"
    /\ lastOp.returned
    /\ requests[lastOp.id].settled = "false"
    /\ pendingCount > 0

\* C8: with timers that fire, every permission request is eventually
\* resolved and the tool call waiting for it gets its answer.
C8_EveryRequestResolves ==
    \A r \in 1..MaxRequests :
       (Len(requests) >= r /\ requests[r].settled = "none")
          ~> (Len(requests) >= r /\ requests[r].result # "pending")

C8_Witness ==
    /\ Len(requests) >= 2
    /\ \A r \in Ids : requests[r].result # "pending"
    /\ \E r \in Ids : requests[r].settled = "false" /\ requests[r].timer = "fired"
    /\ queries = {}

\* C9: with a request pending, a message whose trimmed, upper-cased text is
\* Y, YES or ALLOW is consumed and resolves a request to allow, one whose
\* text is N, NO or DENY is consumed and resolves a request to deny, and any
\* other message is not consumed and leaves the registry and every request
\* as they were.
C9_ReplyTokens ==
    [][(lastOp'.op = "message" /\ pendingCount > 0) =>
          LET t == lastOp'.text
              id == lastOp'.id
              yes == { <<"y">>, <<" ", "Y", "e", "s", "\n">>,
                       <<"a", "l", "l", "o", "w">> }
              no == { <<"N">>, <<"\t", "n", "o", " ">>, <<"D", "e", "n", "y">> }
          IN
          /\ t \in yes =>
                /\ lastOp'.returned
                /\ IsPending(id)
                /\ requests'[id].settled = "true"
          /\ t \in no =>
                /\ lastOp'.returned
                /\ IsPending(id)
                /\ requests'[id].settled = "false"
          /\ t \notin yes \cup no =>
                /\ ~lastOp'.returned
                /\ requests' = requests
                /\ pendingRequests' = pendingRequests]_vars

C9_Witness ==
    /\ lastOp.op = "message"
    /\ lastOp.text = <<" ", "Y", "e", "s", "\n">>
    /\ lastOp.returned
    /\ requests[lastOp.id].settled = "true"

\* C10: a reply that is consumed resolves the pending request with the
\* greatest id (the newest one still pending) and no other: the registry
\* loses exactly that entry and every other request is unchanged.
C10_ReplyResolvesNewest ==
    [][(lastOp'.op = "message" /\ lastOp'.branch = "permission") =>
          LET id == lastOp'.id IN
          /\ IsPending(id)
          /\ \A r \in Ids : IsPending(r) => r <= id
          /\ requests'[id].settled # "none"
          /\ pendingRequests' = SelectSeq(pendingRequests, LAMBDA x : x # id)
          /\ \A r \in Ids \ {id} : requests'[r] = requests[r]]_vars

C10_Witness ==
    /\ lastOp.op = "message"
    /\ lastOp.branch = "permission"
    /\ lastOp.id = 2
    /\ requests[2].settled # "none"
    /\ pendingRequests = <<1>>

C12_ChangeClearsSessionAndHistory ==
    [][(lastOp'.op = "message"
           /\ lastOp'.reply \in {"directoryChanged", "modelChanged", "promptSet",
                                  "promptReset", "appendSet", "appendCleared"}) =>
          /\ currentSessionId' = None
          /\ history' = <<>>]_vars

\* C14 (as stated): a step that takes the session id from set to none also
\* empties the history.
C14_SessionClearedWithHistory ==
    [][(currentSessionId # None /\ currentSessionId' = None) =>
          history' = <<>>]_vars

\* C15 (as stated): the step in which a backend query is made leaves the fork
\* flag false, whether the query starts, or fails at once for want of the
\* executable, and whether or not a session id was set.
C15_ForkFlagOneShot ==
    [][(lastOp'.op = "message" /\ lastOp'.branch = "conversation") =>
          ~forkNextQuery']_vars

\* C16: /fork with no session id replies "no active session to fork" and
\* changes no state, so a fork flag that is off stays off; /fork with a
\* session id turns the fork flag on and leaves the session id and the
\* history as they were.
C16_ForkNeedsSession ==
    [][(lastOp'.op = "message" /\ lastOp'.branch = "command"
           /\ lastOp'.text = <<"/", "f", "o", "r", "k">>) =>
          IF currentSessionId = None
          THEN /\ lastOp'.reply = "noSessionToFork"
               /\ lastOp'.replies = 1
               /\ forkNextQuery' = forkNextQuery
               /\ UNCHANGED <<currentSessionId, history, settingVars, mode,
                              configMode, queries, resuming, permissionVars>>
          ELSE /\ lastOp'.reply = "forkEnabled"
               /\ forkNextQuery'
               /\ currentSessionId' = currentSessionId
               /\ history' = history]_vars

C16_Witness ==
    /\ lastOp.op = "message"
    /\ lastOp.reply = "noSessionToFork"
    /\ ~forkNextQuery
    /\ currentSessionId = None
    /\ history # <<>>

C18_BadDirectoryChangesNothing ==
    [][(lastOp'.op = "message" /\ lastOp'.branch = "command"
           /\ lastOp'.text \in { <<"/", "c", "d", " ", "/", "x">>,
                                  <<"/", "c", "d", " ", "/", "f">>,
                                  <<"/", "c", "d", " ", "/", "z">> }) =>
          /\ lastOp'.replies = 1
          /\ lastOp'.text = <<"/", "c", "d", " ", "/", "x">> => lastOp'.reply = "directoryNotFound"
          /\ lastOp'.text = <<"/", "c", "d", " ", "/", "f">> => lastOp'.reply = "notADirectory"
          /\ lastOp'.text = <<"/", "c", "d", " ", "/", "z">> => lastOp'.reply = "cannotAccess"
          /\ directory' = directory
          /\ currentSessionId' = currentSessionId
          /\ forkNextQuery' = forkNextQuery
          /\ history' = history]_vars

C18_Witness ==
    /\ lastOp.op = "message"
    /\ lastOp.reply = "notADirectory"
    /\ currentSessionId # None
    /\ forkNextQuery
    /\ history # <<>>

\* C13: a permission-mode command (/plan, /default, /acceptEdits, /bypass,
\* /dontAsk or an alias) sets the mode to the one it names and leaves the
\* session id, the fork flag, the history, the permission requests (pending
\* and settled), the running queries and every other setting unchanged.
C13_ModeChangeFrame ==
    [][(lastOp'.op = "message" /\ lastOp'.reply = "modeSwitched") =>
          /\ mode' = ModeOfCommand(commandName(lastOp'.text))
          /\ configMode' = mode'
          /\ lastOp'.replies = 1
          /\ currentSessionId' = currentSessionId
          /\ forkNextQuery' = forkNextQuery
          /\ history' = history
          /\ pendingRequests' = pendingRequests
          /\ requests' = requests
          /\ queries' = queries
          /\ UNCHANGED settingVars]_vars

C13_Witness ==
    /\ lastOp.op = "message"
    /\ lastOp.text = <<"/", "R", "e", "a", "d", "O", "n", "l", "y">>
    /\ lastOp.reply = "modeSwitched"
    /\ mode = "plan"
    /\ currentSessionId # None
    /\ forkNextQuery
    /\ history # <<>>
    /\ pendingRequests # <<>>

C20_ReplyIsConsumed ==
    [][lastOp'.op = "message" =>
          IF pendingCount > 0
             /\ (isYes(toUpperCase(trim(lastOp'.text)))
                  \/ isNo(toUpperCase(trim(lastOp'.text))))
          THEN /\ lastOp'.branch = "permission"
               /\ lastOp'.replies = 0
               /\ Len(pendingRequests') = Len(pendingRequests) - 1
               /\ Cardinality({r \in Ids : requests'[r] # requests[r]}) = 1
               /\ \A r \in Ids : requests'[r] # requests[r] =>
                     /\ IsPending(r)
                     /\ requests[r].result = "pending"
                     /\ requests'[r].result # "pending"
               /\ Len(requests') = Len(requests)
               /\ history' = history
               /\ queries' = queries
               /\ UNCHANGED <<mode, configMode, currentSessionId, forkNextQuery,
                              settingVars>>
          ELSE lastOp'.branch = IF isCommand(lastOp'.text) THEN "command"
                                ELSE "conversation"]_vars

C20_Witness ==
    /\ lastOp.op = "message"
    /\ lastOp.branch = "permission"
    /\ lastOp.text = <<"y">>
    /\ lastOp.allowed
    /\ pendingRequests # <<>>
    /\ history # <<>>

\* C21: a message whose first non-blank character is "/" is handled by a
\* command handler: it sends its one reply, no turn is appended to the history
\* (the history stays as it is or is emptied) and no query is started, for
\* every command name, unknown ones included.
C21_CommandsStayCommands ==
    [][(lastOp'.op = "message" /\ isCommand(lastOp'.text)) =>
          /\ lastOp'.branch = "command"
          /\ lastOp'.replies = 1
          /\ history' \in {history, <<>>}
          /\ queries' = queries]_vars

C21_Witness ==
    /\ lastOp.op = "message"
    /\ lastOp.branch = "command"
    /\ lastOp.reply = "unknownCommand"
    /\ history # <<>>
    /\ queries # {}

\* C22 (as stated): when a query fails, the error is replied and the history
\* is what it was before the failing message was received: a message that
\* fails at once leaves the history unchanged, and a query that ends with an
\* error takes its user turn off the end of the history.
C22_FailedTurnNotKept ==
    [][/\ (lastOp'.op = "message" /\ lastOp'.outcome = "noExecutable") =>
             /\ lastOp'.replies = 1
             /\ history' = history
       /\ (lastOp'.op = "complete"
            /\ lastOp'.reply \in {"error", "resendMessage"}
            /\ history # <<>> /\ history[Len(history)] = UserTurn) =>
             history' = SubSeq(history, 1, Len(history) - 1)]_vars

\* C28: a command name is matched whatever its casing and through the alias
\* table: every command is handled as its lowercase form is, a mode command
\* sets the mode of its alias group (plan, readonly -> plan; default, normal
\* -> default; acceptedits, accept-edits -> acceptEdits; bypass, yolo,
\* bypasspermissions -> bypassPermissions; dontask, dont-ask -> dontAsk), and
\* parseModeCommand gives the same mode as the dispatcher for every alias in
\* lower and in upper case, and for every command received.
C28_AliasesAgree ==
    [][(lastOp'.op = "message" /\ lastOp'.branch = "command") =>
          LET byDispatcher == ModeOfCommand(commandName(lastOp'.text))
              byParser == parseModeCommand(lastOp'.text)
          IN /\ byParser = byDispatcher
             /\ lastOp'.reply = "modeSwitched" <=> byDispatcher # "none"
             /\ lastOp'.reply = "modeSwitched" =>
                   /\ mode' = byDispatcher
                   /\ byDispatcher
                         = ModeOfCommand(commandName(toLowerCase(lastOp'.text)))
                   /\ AliasTablesAgree
                   /\ ModeOfCommand(<<"p", "l", "a", "n">>)
                         = "plan"
                   /\ ModeOfCommand(<<"r", "e", "a", "d", "o", "n", "l", "y">>)
                         = "plan"
                   /\ ModeOfCommand(<<"d", "e", "f", "a", "u", "l", "t">>)
                         = "default"
                   /\ ModeOfCommand(<<"n", "o", "r", "m", "a", "l">>)
                         = "default"
                   /\ ModeOfCommand(<<"a", "c", "c", "e", "p", "t", "e", "d", "i", "t", "s">>)
                         = "acceptEdits"
                   /\ ModeOfCommand(<<"a", "c", "c", "e", "p", "t", "-", "e", "d", "i", "t", "s">>)
                         = "acceptEdits"
                   /\ ModeOfCommand(<<"b", "y", "p", "a", "s", "s">>)
                         = "bypassPermissions"
                   /\ ModeOfCommand(<<"y", "o", "l", "o">>)
                         = "bypassPermissions"
                   /\ ModeOfCommand(<<"b", "y", "p", "a", "s", "s", "p", "e", "r", "m", "i", "s", "s", "i", "o", "n", "s">>)
                         = "bypassPermissions"
                   /\ ModeOfCommand(<<"d", "o", "n", "t", "a", "s", "k">>)
                         = "dontAsk"
                   /\ ModeOfCommand(<<"d", "o", "n", "t", "-", "a", "s", "k">>)
                         = "dontAsk"]_vars

C28_Witness ==
    /\ lastOp.op = "message"
    /\ lastOp.text = <<" ", "/", "B", "y", "p", "a", "s", "s">>
    /\ lastOp.reply = "modeSwitched"
    /\ mode = "bypassPermissions"
    /\ parseModeCommand(lastOp.text) = "bypassPermissions"

\* C30: the document that /config save writes holds only saveable keys, each
\* with the value of the running configuration, and holds neither the fork
\* flag nor the resume-session id, whatever their values.
C30_SavedKeysAreSaveable ==
    [][(lastOp'.op = "message" /\ lastOp'.reply = "configSaved") =>
          /\ DOMAIN lastOp'.saved \subseteq SAVEABLE_KEYS
          /\ "forkSession" \notin DOMAIN lastOp'.saved
          /\ "resumeSessionId" \notin DOMAIN lastOp'.saved
          /\ lastOp'.saved.directory = directory
          /\ lastOp'.saved.mode = configMode
          /\ lastOp'.saved.model = model
          /\ "systemPrompt" \in DOMAIN lastOp'.saved <=> systemPrompt # None
          /\ UNCHANGED <<mode, configMode, sessionVars, settingVars>>]_vars

C30_Witness ==
    /\ lastOp.op = "message"
    /\ lastOp.reply = "configSaved"
    /\ lastOp.given = << <<"s", "1">>, TRUE >>
    /\ forkNextQuery
    /\ currentSessionId # None
    /\ lastOp.saved.agentName = <<"B", "o", "b">>
    /\ lastOp.saved.mode = "plan"

\* C23 (as stated): a resume failure sets the session id to none, leaves the
\* directory, the mode, the model, the prompts and the other settings as they
\* were and replies that the message should be sent again; a query started
\* with no session id carries no resume option; and the failure of a query
\* that carried no resume option is not reported as a resume failure.
C23_ResumeFailureOnlyWhenResuming ==
    [][/\ (lastOp'.op = "complete" /\ lastOp'.outcome = "resumeFailed") =>
             /\ currentSessionId' = None
             /\ UNCHANGED <<mode, configMode, settingVars, forkNextQuery>>
             /\ permissionCallback => lastOp'.reply = "resendMessage"
       /\ (lastOp'.op = "message" /\ lastOp'.outcome = "started"
            /\ currentSessionId = None) =>
             lastOp'.id \notin resuming'
       /\ (lastOp'.op = "complete" /\ lastOp'.id \notin resuming) =>
             lastOp'.outcome # "resumeFailed"]_vars

(* ------------------------------------------------------------------ *)
\* C24: at most one backend query is outstanding per conversation at any
\* time: a conversational message that arrives while a query of its sender
\* is in flight never starts a second one beside it.
C24_OneQueryPerConversation ==
    \A c \in Contacts :
        Cardinality({q \in queries : q \in DOMAIN inbox /\ inbox[q] = c}) <= 1

\* the state that applies to a contact's conversation: index.ts (69) makes
\* one ConversationManager, with one config, one backend and one history,
\* and gives it the messages of every contact; of the history, the turns of
\* the contact's own messages
conversationOf(contact) ==
    <<configMode, settingVars, currentSessionId, forkNextQuery,
      SelectSeq(history, LAMBDA turn : turn.from = contact)>>

(* ------------------------------------------------------------------ *)
\* C25: conversations are isolated. A command of one contact leaves the
\* RuntimeConfig, session id, fork flag and HistoryLog of every other
\* contact as they were, the turn of a contact's message is appended to no
\* history that holds another contact's turns, and the history sent with a
\* contact's query holds that contact's turns only.
C25_ConversationsIsolated ==
    [][/\ (lastOp'.op = "message" /\ lastOp'.branch = "command") =>
            \A c \in Contacts \ {currentSenderJid'} :
                conversationOf(c)' = conversationOf(c)
       /\ lastOp'.op = "typing done" =>
            \A i \in 1..Len(lastOp'.given) :
                lastOp'.given[i].role = "user" =>
                    lastOp'.given[i].from = inbox[lastOp'.id]]_vars

(* ------------------------------------------------------------------ *)
\* C26: handleMessage never fails: when the typing indicator or the sending
\* of a reply fails, the error is caught and no promise of handleMessage
\* rejects.
C26_HandleMessageNeverFails ==
    lastOp.op \in {"typing failed", "reply failed"} =>
        lastOp.outcome = "caught"

(* ------------------------------------------------------------------ *)
\* C29: within one conversation the user turns stand in HistoryLog in the
\* order in which their messages were received, whatever the order in which
\* the typing-indicator calls complete.
C29_TurnsInReceiptOrder ==
    \A i, j \in 1..Len(history) :
        (/\ i < j
         /\ history[i].role = "user" /\ history[j].role = "user"
         /\ history[i].from = history[j].from) =>
            history[i].stamp < history[j].stamp

(* ------------------------------------------------------------------ *)
\* C27: in a group conversation a message that does not target the agent is
\* ignored: no reply is sent and no state changes, and an untargeted Y or N
\* never resolves a pending permission request; a message resolves a request
\* only when it targets the agent and what follows its prefix is a reply.
C27_UntargetedIgnored ==
    [][lastOp'.op = "message" =>
          /\ ~isTargeted(heard', agentName) =>
                /\ lastOp'.branch = "ignored"
                /\ lastOp'.replies = 0
                /\ requests' = requests
                /\ UNCHANGED <<mode, configMode, modeSwitched, queries,
                               resuming, permissionVars, conversationVars>>
          /\ isTargeted(heard', agentName) =>
                /\ lastOp'.branch # "ignored"
                /\ lastOp'.text = stripTargeting(heard', agentName)
          /\ requests' # requests =>
                /\ isTargeted(heard', agentName)
                /\ tryResolveReturns(stripTargeting(heard', agentName),
                                     pendingRequests)]_vars

\* an untargeted Y was ignored while a request was pending, and a targeted
\* reply has resolved a request
C27_Witness ==
    /\ lastOp.op = "message"
    /\ lastOp.branch = "ignored"
    /\ heard = <<"y">>
    /\ pendingCount > 0
    /\ \E id \in Ids : requests[id].result = "allow"

C32_WitnessCreated ==
    /\ lastOp.op = "init message"
    /\ lastOp.id \notin resuming
    /\ lastOp.returned
    /\ currentSessionId # None

(* ------------------------------------------------------------------ *)
\* C33: when a permission request is resolved before its timeout, its timer
\* is cancelled at that moment: no timer is armed for a request that is no
\* longer pending.
C33_NoTimerAfterResolution ==
    \A id \in Ids : requests[id].timer = "armed" => IsPending(id)

(* ------------------------------------------------------------------ *)
\* C34: /session <id> sets the session id to the given id and leaves the
\* history, the fork flag and the configuration unchanged; /session clear
\* sets the session id to none and empties the history; /clear empties the
\* history and leaves the session id, the fork flag and the configuration
\* unchanged.
C34_SessionAndClearFrames ==
    [][lastOp'.op = "message" =>
          /\ lastOp'.reply = "sessionSet" =>
                /\ currentSessionId' = commandArgs(lastOp'.text)
                /\ currentSessionId' # None
                /\ UNCHANGED <<history, forkNextQuery, settingVars, mode,
                               configMode>>
          /\ lastOp'.reply = "sessionCleared" =>
                /\ currentSessionId' = None
                /\ history' = <<>>
                /\ UNCHANGED <<settingVars, mode, configMode>>
          /\ lastOp'.reply = "cleared" =>
                /\ history' = <<>>
                /\ UNCHANGED <<currentSessionId, forkNextQuery, settingVars,
                               mode, configMode>>
          /\ lastOp'.reply \in {"sessionSet", "sessionCleared", "cleared"} =>
                /\ lastOp'.replies = 1
                /\ UNCHANGED <<queries, resuming, permissionVars>>]_vars

\* /session s2 replaced session s1 while the history held a turn and the
\* fork flag was on
C34_Witness ==
    /\ lastOp.op = "message"
    /\ lastOp.reply = "sessionSet"
    /\ currentSessionId = <<"s", "2">>
    /\ history # <<>>
    /\ forkNextQuery

\* /clear emptied nothing but the history: the session and the fork flag stay
C34_WitnessClear ==
    /\ lastOp.op = "message"
    /\ lastOp.reply = "cleared"
    /\ currentSessionId # None
    /\ forkNextQuery
    /\ queries # {}

(* ------------------------------------------------------------------ *)
\* C35: in every reachable state, if the fork flag is on then a session id
\* is set.
C35_ForkFlagHasSession ==
    forkNextQuery => currentSessionId # None

(* ------------------------------------------------------------------ *)
\* C36: the prompt for a permission request raised during a query is sent to
\* the sender of the message that started that query, whatever other
\* messages are handled while the query is in flight.
C36_PromptGoesToQuerySender ==
    [][(lastOp'.op = "toolPermission" /\ lastOp'.behavior = "ask") =>
          lastOp'.given = <<inbox[requests'[lastOp'.id].query]>>]_vars

(* ------------------------------------------------------------------ *)
\* C37: in the history every assistant turn is preceded by the user turn of
\* the query that produced it: the completion of a query appends no
\* assistant turn to a history that holds no user turn.
C37_AssistantFollowsUser ==
    [][(lastOp'.op = "complete" /\ history' = Append(history, AssistantTurn)) =>
          \E i \in 1..Len(history) : history[i].role = "user"]_vars

(* ------------------------------------------------------------------ *)
\* C38: the full prompt sent to the backend contains the current user
\* message exactly once: the history given with the query holds the turns
\* received before the current message, and the message follows them.
C38_MessageOnceInPrompt ==
    [][(lastOp'.op = "typing done" /\ lastOp'.outcome = "started") =>
          /\ Cardinality({i \in 1..Len(lastOp'.given) :
                             lastOp'.given[i].stamp = lastOp'.id}) = 1
          /\ lastOp'.given[Len(lastOp'.given)].stamp = lastOp'.id]_vars

\* the latest version is greater than the current one: at the first place
\* where their numbers differ, the latest has the greater number
IsNewer(latestVersion, currentVersion) ==
    LET c == versionParts(comparableVersion(currentVersion))
        l == versionParts(latestVersion)
        n == IF Len(c) > Len(l) THEN Len(c) ELSE Len(l)
    IN \E i \in 1..n :
          /\ partAt(l, i) > partAt(c, i)
          /\ \A j \in 1..(i - 1) : partAt(l, j) = partAt(c, j)

(* ------------------------------------------------------------------ *)
\* C39: the self-update goes on to install only when the latest release
\* version is strictly greater than the current version (numbers compared
\* place by place, a leading v ignored, the dev version as 0.0.0), and when
\* the update fails at any step an executable is still at the executable
\* path.
C39_UpdateKeepsExecutable ==
    [][/\ (lastOp'.op = "runUpdate" /\ update'.pc = "download") =>
             IsNewer(lastOp'.given[2], lastOp'.given[1])
       /\ (lastOp'.op = "runUpdate" /\ lastOp'.outcome = "upToDate") =>
             ~IsNewer(lastOp'.given[2], lastOp'.given[1])
       /\ update'.pc = "exit1" => update'.exec # "none"]_vars
====
